---- MODULE Spec2Model ----
(***************************************************************************)
(* A model of the Goldbach signal engine (src/app/goldbach_engine.py) and  *)
(* of the backtest runner (src/app/backtester.py).                         *)
(*                                                                         *)
(* Numbers.  Python floats are modelled in fixed point.  A price is an     *)
(* integer count of 1/PriceScale price points, so that int(price) and      *)
(* int(price * 10000) truncate exactly as the code does and every level    *)
(* price low + pct/100 * size is an integer.  A position inside a bracket  *)
(* is the exact rational num/den.  Money is an integer count of            *)
(* 1/MoneyScale currency units, products being rounded down.               *)
(* A timestamp is the number of minutes since Monday 2024-01-01 00:00.     *)
(***************************************************************************)
EXTENDS Integers, Sequences, FiniteSets, TLC

VARIABLES
    pc,             \* position of run_backtest: "loop", "close", "stats", "done", "raised"
    config,         \* BacktestEngine.config, fixed for a run
    i,              \* index of the next bar the loop reads (len(data) once it ended)
    prev_close,     \* closes[i-1]
    last_date,      \* dates[i-1], the timestamp of the last bar read
    in_trade,       \* run_backtest local
    current_trade,  \* run_backtest local (None when flat)
    trades,         \* BacktestEngine.trades, the ledger
    capital,        \* run_backtest local
    equity_curve,   \* run_backtest local
    trade_id,       \* run_backtest local
    setup_counter,  \* GoldbachEngine.setup_counter of the run's engine
    statistics,     \* what run_backtest returned (NoStats before it returns)
    decision,       \* what the last loop iteration did (history, not program state)
    other,          \* a second, independent run_backtest frame (a record)
    call            \* the last direct call of generate_setup and what it returned

vars == <<pc, config, i, prev_close, last_date, in_trade, current_trade, trades,
          capital, equity_curve, trade_id, setup_counter, statistics, decision, other,
          call>>

----------------------------------------------------------------------------
(* Units *)

ForexScale == 10000
PriceScale == 2 * ForexScale
MoneyScale == 100

Pts(whole, frac) == whole * PriceScale + frac

Min2(a, b) == IF a <= b THEN a ELSE b
Max2(a, b) == IF a >= b THEN a ELSE b
Abs(a) == IF a < 0 THEN 0 - a ELSE a

\* floor(a * b / q) for b >= 0 and q > 0, without forming the product a * b
MulDiv(a, b, q) ==
    LET a1 == a \div q
        a0 == a % q
        b1 == b \div q
        b0 == b % q
    IN  a1 * b1 * q + a1 * b0 + a0 * b1 + ((a0 * b0) \div q)

----------------------------------------------------------------------------
(* Timestamps: datetime fields of a minute count since Mon 2024-01-01 00:00 *)

MinutesPerDay == 24 * 60
DaysBefore == <<0, 31, 60, 91, 121, 152, 182, 213, 244, 274, 305, 335, 366>>

Stamp(month, day, hour, minute) ==
    (DaysBefore[month] + day - 1) * MinutesPerDay + hour * 60 + minute

Hour(t) == (t % MinutesPerDay) \div 60
Minute(t) == t % 60
Weekday(t) == (t \div MinutesPerDay) % 7
Month(t) ==
    CHOOSE m \in 1..12 :
        /\ DaysBefore[m] <= t \div MinutesPerDay
        /\ t \div MinutesPerDay < DaysBefore[m + 1]
Day(t) == (t \div MinutesPerDay) - DaysBefore[Month(t)] + 1

----------------------------------------------------------------------------
(* Enums and constant tables of goldbach_engine.py *)

BULLISH == "BULLISH"
BEARISH == "BEARISH"
NEUTRAL == "NEUTRAL"

LAYER_LIQUIDITY == "LIQUIDITY"
LAYER_FLOW == "FLOW"
LAYER_REBALANCE == "REBALANCE"
LAYER_NONE == "None"

EINSTEIN == "EINSTEIN"
LIQUIDITY == "LIQUIDITY"
FLOW_CONTINUATION == "FLOW_CONTINUATION"
FLOW_REJECTION == "FLOW_REJECTION"
REBALANCE == "REBALANCE"
STOP_RUN == "STOP_RUN"
NoPlan == "None"
TradePlan == {EINSTEIN, LIQUIDITY, FLOW_CONTINUATION, FLOW_REJECTION, REBALANCE, STOP_RUN}

ASIAN == "A"
MANIPULATION == "M"
DISTRIBUTION_1 == "D1"
DISTRIBUTION_2 == "D2"

PO3_SIZES == {3, 9, 27, 81, 243, 729, 2187, 6561}
DEFAULT_PO3 == 729

GOLDBACH_NUMBERS == {3, 11, 17, 29, 41, 47, 53, 59, 71, 83, 89, 97}

MONTHLY_PARTITIONS == <<8, 7, 6, 5, 4, 3, 2, 1, 9, 8, 7, 6>>
\* the key_days dict of get_monthly_partition_info (the notes in Latin letters)
key_days ==
    [d \in {3, 11, 17} |->
        CASE d = 3 -> "POI clue day - look for gap/block/liquidity"
          [] d = 11 -> "First major swing (Goldbach number)"
          [] d = 17 -> "Second swing if day 11 didn't complete"]

KeyDays == DOMAIN key_days

\* dict.get on a missing key
NoNote == "None"

partition_numbers == <<18, 27, 36, 45, 54, 63, 72, 81, 99, 108, 117, 126>>

strength_order == <<"WEAK", "MEDIUM", "STRONG", "EXCELLENT", "PERFECT">>

----------------------------------------------------------------------------
(* PO3Range *)

\* PO3Range.get_level_price: low + (level_pct / 100) * size
get_level_price(r, level_pct) ==
    r.low + (level_pct * r.size * PriceScale) \div 100

\* A position is the rational num/den; den is size (in price units)
PosConst(r, k) == [num |-> k * r.size * PriceScale, den |-> r.size * PriceScale]

\* PO3Range.get_position
get_position(r, price) ==
    IF price < r.low THEN PosConst(r, 0)
    ELSE IF price > r.high THEN PosConst(r, 100)
    ELSE [num |-> (price - r.low) * 100, den |-> r.size * PriceScale]

PosLE(p, k) == p.num <= k * p.den
PosGE(p, k) == p.num >= k * p.den
PosLT(p, k) == p.num < k * p.den
PosGT(p, k) == p.num > k * p.den

\* a slip: round(price) where the code truncates with int(price)
calculate_range_rounding(price, po3_size, default_po3) ==
    LET po3 == IF po3_size = 0 THEN default_po3 ELSE po3_size
        forex == price < Pts(100, 0)
        unit == IF forex THEN PriceScale \div ForexScale ELSE PriceScale
        price_int == (price + unit \div 2) \div unit
        range_low == (price_int \div po3) * po3
    IN  [range_num |-> price_int \div po3,
         low  |-> range_low * unit,
         high |-> (range_low + po3) * unit,
         size |-> po3]

\* GoldbachEngine.calculate_range; po3_size 0 stands for None (both are falsy)
calculate_range(price, po3_size, default_po3) ==
    LET po3 == IF po3_size = 0 THEN default_po3 ELSE po3_size
        forex == price < Pts(100, 0)
        price_int == IF forex THEN price \div (PriceScale \div ForexScale)
                     ELSE price \div PriceScale
        range_num == price_int \div po3
        range_low == range_num * po3
        range_high == range_low + po3
    IN  [range_num |-> range_num,
         low  |-> IF forex THEN range_low * (PriceScale \div ForexScale)
                  ELSE range_low * PriceScale,
         high |-> IF forex THEN range_high * (PriceScale \div ForexScale)
                  ELSE range_high * PriceScale,
         size |-> po3]

\* a slip: the rebalance band starts at equilibrium instead of level 41
_get_layer_for_position_late_rebalance(position) ==
    IF PosLE(position, 17) \/ PosGE(position, 83) THEN LAYER_LIQUIDITY
    ELSE IF (PosGE(position, 29) /\ PosLE(position, 35))
            \/ (PosGE(position, 65) /\ PosLE(position, 71)) THEN LAYER_FLOW
    ELSE IF PosGE(position, 50) /\ PosLE(position, 59) THEN LAYER_REBALANCE
    ELSE LAYER_NONE

\* GoldbachEngine._get_layer_for_position
_get_layer_for_position(position) ==
    IF PosLE(position, 17) \/ PosGE(position, 83) THEN LAYER_LIQUIDITY
    ELSE IF (PosGE(position, 29) /\ PosLE(position, 35))
            \/ (PosGE(position, 65) /\ PosLE(position, 71)) THEN LAYER_FLOW
    ELSE IF PosGE(position, 41) /\ PosLE(position, 59) THEN LAYER_REBALANCE
    ELSE LAYER_NONE

----------------------------------------------------------------------------
(* Bias, time, cycle and calendar classifiers *)

\* a slip in the two "mild" branches: below equilibrium read as BEARISH
BiasForMildSwapped(position) ==
    IF PosLE(position, 17) THEN BULLISH
    ELSE IF PosGE(position, 83) THEN BEARISH
    ELSE IF PosLT(position, 50) THEN BEARISH
    ELSE IF PosGT(position, 50) THEN BULLISH
    ELSE NEUTRAL

\* analyze_bias, "bias according to GIP": the direction for a position
BiasFor(position) ==
    IF PosLE(position, 17) THEN BULLISH
    ELSE IF PosGE(position, 83) THEN BEARISH
    ELSE IF PosLT(position, 50) THEN BULLISH
    ELSE IF PosGT(position, 50) THEN BEARISH
    ELSE NEUTRAL

\* a slip: the trend term without its cap of 10
TrendTermUncapped(trend_days) == Abs(trend_days) * 2

\* analyze_bias, "trend alignment": min(abs(trend_days) * 2, 10)
TrendTerm(trend_days) == Min2(Abs(trend_days) * 2, 10)

\* GoldbachEngine.analyze_bias
analyze_bias(price, po3_size, default_po3, trend_days) ==
    LET po3_range == calculate_range(price, po3_size, default_po3)
        position == get_position(po3_range, price)
        layer == _get_layer_for_position(position)
        bias == BiasFor(position)
        gip_level == IF PosLE(position, 17) THEN 17
                     ELSE IF PosGE(position, 83) THEN 83
                     ELSE IF PosLT(position, 50) THEN 17
                     ELSE IF PosGT(position, 50) THEN 83
                     ELSE 50
        c0 == 50 + (IF PosLE(position, 17) \/ PosGE(position, 83) THEN 15 ELSE 0)
        c1 == c0 + (IF layer = LAYER_LIQUIDITY THEN 10
                    ELSE IF layer = LAYER_FLOW THEN 5 ELSE 0)
        trend_aligned == (trend_days > 0 /\ bias = BULLISH)
                         \/ (trend_days < 0 /\ bias = BEARISH)
        c2 == IF trend_days = 0 THEN c1
              ELSE IF trend_aligned THEN c1 + TrendTerm(trend_days)
              ELSE c1 - TrendTerm(trend_days)
    IN  [bias |-> bias,
         confidence |-> Max2(40, Min2(85, c2)),
         gip_level |-> gip_level,
         position |-> position,
         layer |-> IF layer = LAYER_NONE THEN LAYER_FLOW ELSE layer]

\* a slip: of two equally near numbers the later one is kept
analyze_goldbach_time_last_nearest(time) ==
    LET sum_value == Hour(time) + Minute(time)
    IN  [time |-> time,
         hour |-> Hour(time),
         minute |-> Minute(time),
         sum_value |-> sum_value,
         is_goldbach |-> sum_value \in GOLDBACH_NUMBERS,
         nearest_goldbach |->
            CHOOSE x \in GOLDBACH_NUMBERS :
                \A y \in GOLDBACH_NUMBERS :
                    \/ Abs(x - sum_value) < Abs(y - sum_value)
                    \/ (Abs(x - sum_value) = Abs(y - sum_value) /\ x >= y)]

\* GoldbachEngine.analyze_goldbach_time; min() keeps the first of equally near numbers
analyze_goldbach_time(time) ==
    LET sum_value == Hour(time) + Minute(time)
    IN  [time |-> time,
         hour |-> Hour(time),
         minute |-> Minute(time),
         sum_value |-> sum_value,
         is_goldbach |-> sum_value \in GOLDBACH_NUMBERS,
         nearest_goldbach |->
            CHOOSE x \in GOLDBACH_NUMBERS :
                \A y \in GOLDBACH_NUMBERS :
                    \/ Abs(x - sum_value) < Abs(y - sum_value)
                    \/ (Abs(x - sum_value) = Abs(y - sum_value) /\ x <= y)]

\* GoldbachEngine.get_amd_cycle
get_amd_cycle(time) ==
    LET hour == Hour(time)
    IN  IF (20 <= hour /\ hour <= 23) \/ (0 <= hour /\ hour < 3) THEN ASIAN
        ELSE IF 3 <= hour /\ hour < 9 THEN MANIPULATION
        ELSE IF 9 <= hour /\ hour < 12 THEN DISTRIBUTION_1
        ELSE DISTRIBUTION_2

\* a slip: the start day counted as day 0 of the partition
get_monthly_partition_info_from_zero(date) ==
    LET month == Month(date)
        day == Day(date)
        start_day == MONTHLY_PARTITIONS[month]
        partition_day == IF day >= start_day THEN day - start_day ELSE 0
    IN  [month |-> month,
         day |-> day,
         partition_start |-> start_day,
         partition_number |-> partition_numbers[month],
         partition_day |-> partition_day,
         is_key_day |-> partition_day \in KeyDays,
         key_day_info |-> IF partition_day \in KeyDays THEN key_days[partition_day]
                          ELSE NoNote,
         expected_stop_run_pips |-> partition_numbers[month]]

\* GoldbachEngine.get_monthly_partition_info
get_monthly_partition_info(date) ==
    LET month == Month(date)
        day == Day(date)
        start_day == MONTHLY_PARTITIONS[month]
        partition_day == IF day >= start_day THEN day - start_day + 1 ELSE 0
    IN  [month |-> month,
         day |-> day,
         partition_start |-> start_day,
         partition_number |-> partition_numbers[month],
         partition_day |-> partition_day,
         is_key_day |-> partition_day \in KeyDays,
         key_day_info |-> IF partition_day \in KeyDays THEN key_days[partition_day]
                          ELSE NoNote,
         expected_stop_run_pips |-> partition_numbers[month]]

----------------------------------------------------------------------------
(* Setup Generator *)

Target(r, level) == [level |-> level, price |-> get_level_price(r, level)]

Plan(plan, entry_zone, targets, invalidation) ==
    [plan |-> plan, entry_zone |-> entry_zone, targets |-> targets,
     invalidation |-> invalidation]

\* GoldbachEngine._determine_trade_plan: the rules are tried top to bottom and the
\* first one that matches returns.  bias is the BiasAnalysis of analyze_bias.
PlanRules(po3_range, position, bias) ==
    IF PosLE(position, 17) /\ bias.bias = BULLISH THEN
        Plan(EINSTEIN,
             <<get_level_price(po3_range, 11), get_level_price(po3_range, 17)>>,
             <<Target(po3_range, 47), Target(po3_range, 59)>>,
             Target(po3_range, 7))
    ELSE IF PosGE(position, 83) /\ bias.bias = BEARISH THEN
        Plan(EINSTEIN,
             <<get_level_price(po3_range, 83), get_level_price(po3_range, 89)>>,
             <<Target(po3_range, 53), Target(po3_range, 41)>>,
             Target(po3_range, 93))
    ELSE IF PosLE(position, 11) /\ bias.bias = BULLISH THEN
        Plan(LIQUIDITY,
             <<get_level_price(po3_range, 3), get_level_price(po3_range, 11)>>,
             <<Target(po3_range, 29), Target(po3_range, 50)>>,
             [level |-> 0, price |-> po3_range.low])
    ELSE IF PosGE(position, 89) /\ bias.bias = BEARISH THEN
        Plan(LIQUIDITY,
             <<get_level_price(po3_range, 89), get_level_price(po3_range, 97)>>,
             <<Target(po3_range, 71), Target(po3_range, 50)>>,
             [level |-> 100, price |-> po3_range.high])
    ELSE IF PosGE(position, 29) /\ PosLE(position, 35) /\ bias.bias = BULLISH THEN
        Plan(FLOW_CONTINUATION,
             <<get_level_price(po3_range, 29), get_level_price(po3_range, 35)>>,
             <<Target(po3_range, 50), Target(po3_range, 71)>>,
             Target(po3_range, 17))
    ELSE IF PosGE(position, 65) /\ PosLE(position, 71) /\ bias.bias = BEARISH THEN
        Plan(FLOW_CONTINUATION,
             <<get_level_price(po3_range, 65), get_level_price(po3_range, 71)>>,
             <<Target(po3_range, 50), Target(po3_range, 29)>>,
             Target(po3_range, 83))
    ELSE IF PosGE(position, 41) /\ PosLE(position, 59) THEN
        IF PosLE(position, 50) THEN
            Plan(REBALANCE,
                 <<get_level_price(po3_range, 41), get_level_price(po3_range, 47)>>,
                 <<Target(po3_range, 53), Target(po3_range, 59)>>,
                 Target(po3_range, 35))
        ELSE
            Plan(REBALANCE,
                 <<get_level_price(po3_range, 53), get_level_price(po3_range, 59)>>,
                 <<Target(po3_range, 47), Target(po3_range, 41)>>,
                 Target(po3_range, 65))
    ELSE Plan(NoPlan, <<0, 0>>, << >>, << >>)

\* a slip: the two LIQUIDITY rules tried before the two EINSTEIN rules
_determine_trade_plan_liquidity_first(po3_range, position, bias) ==
    IF PosLE(position, 11) /\ bias.bias = BULLISH THEN
        Plan(LIQUIDITY,
             <<get_level_price(po3_range, 3), get_level_price(po3_range, 11)>>,
             <<Target(po3_range, 29), Target(po3_range, 50)>>,
             [level |-> 0, price |-> po3_range.low])
    ELSE IF PosGE(position, 89) /\ bias.bias = BEARISH THEN
        Plan(LIQUIDITY,
             <<get_level_price(po3_range, 89), get_level_price(po3_range, 97)>>,
             <<Target(po3_range, 71), Target(po3_range, 50)>>,
             [level |-> 100, price |-> po3_range.high])
    ELSE PlanRules(po3_range, position, bias)

_determine_trade_plan(po3_range, position, bias) == PlanRules(po3_range, position, bias)

StrengthLabel(score) ==
    IF score >= 6 THEN "PERFECT"
    ELSE IF score >= 5 THEN "EXCELLENT"
    ELSE IF score >= 4 THEN "STRONG"
    ELSE IF score >= 2 THEN "MEDIUM"
    ELSE "WEAK"

\* a slip: confidence from 60 up scores 2, the step at 70 lost
StrengthScoreOneStep(bias, gb_time, amd, partition) ==
    (IF bias.confidence >= 60 THEN 2 ELSE 0)
    + (IF gb_time.is_goldbach THEN 2 ELSE 0)
    + (IF amd \in {MANIPULATION, DISTRIBUTION_1} THEN 1 ELSE 0)
    + (IF partition.is_key_day THEN 1 ELSE 0)
    + (IF bias.layer = LAYER_LIQUIDITY THEN 1 ELSE 0)

\* _calculate_signal_strength: the score before it is mapped to a label
StrengthScore(bias, gb_time, amd, partition) ==
    (IF bias.confidence >= 70 THEN 2 ELSE IF bias.confidence >= 60 THEN 1 ELSE 0)
    + (IF gb_time.is_goldbach THEN 2 ELSE 0)
    + (IF amd \in {MANIPULATION, DISTRIBUTION_1} THEN 1 ELSE 0)
    + (IF partition.is_key_day THEN 1 ELSE 0)
    + (IF bias.layer = LAYER_LIQUIDITY THEN 1 ELSE 0)

\* GoldbachEngine._calculate_signal_strength
_calculate_signal_strength(bias, gb_time, amd, partition) ==
    StrengthLabel(StrengthScore(bias, gb_time, amd, partition))

None == [plan |-> NoPlan]

\* a slip: the fixed 20-point offset used although the invalidation has a price
StopLossOffsetOnly(bias, entry_zone, invalidation) ==
    IF bias = BULLISH THEN entry_zone[1] - Pts(20, 0) ELSE entry_zone[2] + Pts(20, 0)

\* generate_setup, "Stop loss": the invalidation price, or 20 points beyond the
\* entry zone when the invalidation has no price
StopLoss(bias, entry_zone, invalidation) ==
    IF bias = BULLISH
    THEN IF "price" \in DOMAIN invalidation THEN invalidation.price
         ELSE entry_zone[1] - Pts(20, 0)
    ELSE IF "price" \in DOMAIN invalidation THEN invalidation.price
         ELSE entry_zone[2] + Pts(20, 0)

\* GoldbachEngine.generate_setup, called on an engine whose setup_counter is counter.
\* The result is the returned TradeSetup (None when no rule matches); the engine's
\* counter afterwards is counter + 1 in either case.
generate_setup(counter, price, po3_size, default_po3, trend_days, time) ==
    LET po3_range == calculate_range(price, po3_size, default_po3)
        position == get_position(po3_range, price)
        bias_analysis == analyze_bias(price, po3_size, default_po3, trend_days)
        gb_time == analyze_goldbach_time(time)
        amd_info == get_amd_cycle(time)
        partition_info == get_monthly_partition_info(time)
        p == _determine_trade_plan(po3_range, position, bias_analysis)
        entry_price == (p.entry_zone[1] + p.entry_zone[2]) \div 2
        stop_loss == StopLoss(bias_analysis.bias, p.entry_zone, p.invalidation)
    IN  IF p.plan = NoPlan THEN None
        ELSE [id |-> counter + 1,
              timestamp |-> time,
              plan |-> p.plan,
              bias |-> bias_analysis.bias,
              confidence |-> bias_analysis.confidence,
              entry_zone |-> p.entry_zone,
              entry_price |-> entry_price,
              stop_loss |-> stop_loss,
              targets |-> p.targets,
              invalidation |-> p.invalidation,
              goldbach_time_confirm |-> gb_time.is_goldbach,
              amd_cycle |-> amd_info,
              monthly_partition_day |-> partition_info.partition_day,
              signal_strength |->
                  _calculate_signal_strength(bias_analysis, gb_time, amd_info,
                                             partition_info)]

----------------------------------------------------------------------------
(* Backtest Runner: helpers of BacktestEngine *)

NoTrade == [id |-> 0]
NoExit == [reason |-> "None"]

StrengthIndex(label) == CHOOSE k \in 1..Len(strength_order) : strength_order[k] = label

\* a slip: the cycle-phase filter left out
_filter_setup_any_cycle(setup, cfg) ==
    /\ StrengthIndex(setup.signal_strength) >= StrengthIndex(cfg.min_signal_strength)
    /\ setup.plan \in cfg.allowed_plans
    /\ (cfg.require_goldbach_time => setup.goldbach_time_confirm)

\* BacktestEngine._filter_setup
_filter_setup(setup, cfg) ==
    /\ StrengthIndex(setup.signal_strength) >= StrengthIndex(cfg.min_signal_strength)
    /\ setup.plan \in cfg.allowed_plans
    /\ setup.amd_cycle \in cfg.allowed_amd_cycles
    /\ (cfg.require_goldbach_time => setup.goldbach_time_confirm)

\* a slip: the targets tested before the stop
_check_exit_targets_first(trade, high, low, close, current_bar, cfg) ==
    LET bars_held == current_bar - trade.entry_bar
    IN  IF bars_held >= cfg.max_bars_in_trade THEN
            [price |-> close, reason |-> "TIME_EXIT"]
        ELSE IF trade.direction = "LONG" THEN
            IF high >= trade.target_2 THEN
                [price |-> trade.target_2, reason |-> "TARGET_2"]
            ELSE IF high >= trade.target_1 THEN
                [price |-> trade.target_1, reason |-> "TARGET_1"]
            ELSE IF cfg.use_stop_loss /\ low <= trade.stop_loss THEN
                [price |-> trade.stop_loss, reason |-> "STOP_LOSS"]
            ELSE NoExit
        ELSE
            IF low <= trade.target_2 THEN
                [price |-> trade.target_2, reason |-> "TARGET_2"]
            ELSE IF low <= trade.target_1 THEN
                [price |-> trade.target_1, reason |-> "TARGET_1"]
            ELSE IF cfg.use_stop_loss /\ high >= trade.stop_loss THEN
                [price |-> trade.stop_loss, reason |-> "STOP_LOSS"]
            ELSE NoExit

\* a slip: the first target tested before the second
_check_exit_target_1_first(trade, high, low, close, current_bar, cfg) ==
    LET bars_held == current_bar - trade.entry_bar
    IN  IF bars_held >= cfg.max_bars_in_trade THEN
            [price |-> close, reason |-> "TIME_EXIT"]
        ELSE IF trade.direction = "LONG" THEN
            IF cfg.use_stop_loss /\ low <= trade.stop_loss THEN
                [price |-> trade.stop_loss, reason |-> "STOP_LOSS"]
            ELSE IF high >= trade.target_1 THEN
                [price |-> trade.target_1, reason |-> "TARGET_1"]
            ELSE IF high >= trade.target_2 THEN
                [price |-> trade.target_2, reason |-> "TARGET_2"]
            ELSE NoExit
        ELSE
            IF cfg.use_stop_loss /\ high >= trade.stop_loss THEN
                [price |-> trade.stop_loss, reason |-> "STOP_LOSS"]
            ELSE IF low <= trade.target_1 THEN
                [price |-> trade.target_1, reason |-> "TARGET_1"]
            ELSE IF low <= trade.target_2 THEN
                [price |-> trade.target_2, reason |-> "TARGET_2"]
            ELSE NoExit

\* BacktestEngine._check_exit
_check_exit(trade, high, low, close, current_bar, cfg) ==
    LET bars_held == current_bar - trade.entry_bar
    IN  IF bars_held >= cfg.max_bars_in_trade THEN
            [price |-> close, reason |-> "TIME_EXIT"]
        ELSE IF trade.direction = "LONG" THEN
            IF cfg.use_stop_loss /\ low <= trade.stop_loss THEN
                [price |-> trade.stop_loss, reason |-> "STOP_LOSS"]
            ELSE IF high >= trade.target_2 THEN
                [price |-> trade.target_2, reason |-> "TARGET_2"]
            ELSE IF high >= trade.target_1 THEN
                [price |-> trade.target_1, reason |-> "TARGET_1"]
            ELSE NoExit
        ELSE
            IF cfg.use_stop_loss /\ high >= trade.stop_loss THEN
                [price |-> trade.stop_loss, reason |-> "STOP_LOSS"]
            ELSE IF low <= trade.target_2 THEN
                [price |-> trade.target_2, reason |-> "TARGET_2"]
            ELSE IF low <= trade.target_1 THEN
                [price |-> trade.target_1, reason |-> "TARGET_1"]
            ELSE NoExit

\* pnl_pct = (pnl / position_size) * 100 divides by zero when the position size is 0
CloseRaises(trade) == trade.position_size = 0

\* BacktestEngine._close_trade (for a trade it does not raise on)
_close_trade(trade, exit_time, exit_price, exit_reason, bars_held, mae, mfe, cfg) ==
    LET gross == IF trade.direction = "LONG"
                 THEN MulDiv(exit_price - trade.entry_price, trade.position_size, PriceScale)
                 ELSE MulDiv(trade.entry_price - exit_price, trade.position_size, PriceScale)
        pnl == gross - cfg.commission * 2 - cfg.slippage * 2
        pnl_pct == IF trade.position_size > 0
                   THEN (pnl * 100) \div trade.position_size
                   ELSE ((0 - pnl) * 100) \div (0 - trade.position_size)
    IN  [id |-> trade.id,
         entry_time |-> trade.entry_time,
         exit_time |-> exit_time,
         direction |-> trade.direction,
         plan |-> trade.plan,
         entry_price |-> trade.entry_price,
         exit_price |-> exit_price,
         stop_loss |-> trade.stop_loss,
         target_1 |-> trade.target_1,
         target_2 |-> trade.target_2,
         position_size |-> trade.position_size,
         pnl |-> pnl,
         pnl_pct |-> pnl_pct,
         result |-> IF pnl > 0 THEN "WIN" ELSE IF pnl < 0 THEN "LOSS" ELSE "BREAKEVEN",
         exit_reason |-> exit_reason,
         bars_held |-> bars_held,
         mae |-> mae,
         mfe |-> mfe,
         signal_strength |-> trade.signal_strength,
         goldbach_time |-> trade.goldbach_time,
         amd_cycle |-> trade.amd_cycle]

\* a slip: the excursions of the last bar kept, not the running extremes
UpdateExcursions_last_bar(trade, high, low) ==
    IF trade.direction = "LONG" THEN
        [trade EXCEPT !.mae = low - trade.entry_price,
                      !.mfe = high - trade.entry_price]
    ELSE
        [trade EXCEPT !.mae = trade.entry_price - high,
                      !.mfe = trade.entry_price - low]

\* run_backtest, the else branch of the exit check: the running MAE / MFE
UpdateExcursions(trade, high, low) ==
    IF trade.direction = "LONG" THEN
        [trade EXCEPT !.mae = Min2(trade.mae, low - trade.entry_price),
                      !.mfe = Max2(trade.mfe, high - trade.entry_price)]
    ELSE
        [trade EXCEPT !.mae = Min2(trade.mae, trade.entry_price - high),
                      !.mfe = Max2(trade.mfe, trade.entry_price - low)]

\* a slip: the ledger overwritten by the closed trade
AppendTradeOverwrites(ledger, trade) == <<trade>>

\* run_backtest: self.trades.append(trade)
AppendTrade(ledger, trade) == Append(ledger, trade)

\* a slip: the setup generated from the current bar's close
SignalPriceCurrentClose(prev, bar) == bar.close

\* run_backtest: the price handed to generate_setup at bar i is closes[i-1]
SignalPrice(prev, bar) == prev

\* a slip: the position sized on the initial capital
NewTrade_initial_capital(setup, id, entry_bar, entry_time, cap, cfg) ==
    [id |-> id,
     entry_bar |-> entry_bar,
     entry_time |-> entry_time,
     direction |-> IF setup.bias = BULLISH THEN "LONG" ELSE "SHORT",
     plan |-> setup.plan,
     entry_price |-> setup.entry_price,
     stop_loss |-> setup.stop_loss,
     target_1 |-> IF Len(setup.targets) > 0 THEN setup.targets[1].price
                  ELSE setup.entry_price,
     target_2 |-> IF Len(setup.targets) > 1 THEN setup.targets[2].price
                  ELSE setup.entry_price,
     position_size |-> MulDiv(cfg.initial_capital, cfg.position_size_pct, 100),
     signal_strength |-> setup.signal_strength,
     goldbach_time |-> setup.goldbach_time_confirm,
     amd_cycle |-> setup.amd_cycle,
     mae |-> 0,
     mfe |-> 0]

\* run_backtest: the current_trade dict built from an accepted setup
NewTrade(setup, id, entry_bar, entry_time, cap, cfg) ==
    [id |-> id,
     entry_bar |-> entry_bar,
     entry_time |-> entry_time,
     direction |-> IF setup.bias = BULLISH THEN "LONG" ELSE "SHORT",
     plan |-> setup.plan,
     entry_price |-> setup.entry_price,
     stop_loss |-> setup.stop_loss,
     target_1 |-> IF Len(setup.targets) > 0 THEN setup.targets[1].price
                  ELSE setup.entry_price,
     target_2 |-> IF Len(setup.targets) > 1 THEN setup.targets[2].price
                  ELSE setup.entry_price,
     position_size |-> MulDiv(cap, cfg.position_size_pct, 100),
     signal_strength |-> setup.signal_strength,
     goldbach_time |-> setup.goldbach_time_confirm,
     amd_cycle |-> setup.amd_cycle,
     mae |-> 0,
     mfe |-> 0]

----------------------------------------------------------------------------
(* Statistics Aggregator *)

RECURSIVE SumPnl(_)
SumPnl(ts) == IF ts = << >> THEN 0 ELSE ts[1].pnl + SumPnl(Tail(ts))

CountResult(ts, res) == Cardinality({k \in 1..Len(ts) : ts[k].result = res})

NoStats == [total_trades |-> -1]

RECURSIVE GCD(_, _)
GCD(a, b) == IF b = 0 THEN a ELSE GCD(b, a % b)

\* the quotient n / d of two floats (n >= 0, d > 0), kept exact in lowest terms
Frac(n, d) == [num |-> n \div GCD(n, d), den |-> d \div GCD(n, d)]

Zero == Frac(0, 1)

Wins(ts) == SelectSeq(ts, LAMBDA t : t.result = "WIN")
Losses(ts) == SelectSeq(ts, LAMBDA t : t.result = "LOSS")

\* _calculate_statistics, "Profit Factor": gross_loss is 1 (one money unit) without losses
ProfitFactor(ts) ==
    LET gross_profit == IF Wins(ts) # << >> THEN SumPnl(Wins(ts)) ELSE 0
        gross_loss == IF Losses(ts) # << >> THEN Abs(SumPnl(Losses(ts))) ELSE MoneyScale
    IN  IF gross_loss > 0 THEN Frac(gross_profit, gross_loss) ELSE Zero

\* BacktestStatistics(): the defaults of the dataclass
DefaultStats ==
    [total_trades |-> 0, winning_trades |-> 0, losing_trades |-> 0,
     breakeven_trades |-> 0, win_rate |-> Zero, total_pnl |-> 0,
     profit_factor |-> Zero, max_drawdown |-> 0, max_drawdown_duration |-> 0,
     equity_curve |-> << >>]

\* BacktestEngine._stats_by_day indexes a five-name list with entry_time.weekday()
StatsByDayRaises(ts) == \E k \in 1..Len(ts) : Weekday(ts[k].entry_time) >= 5

\* the drawdown loop of _calculate_statistics from index idx of the curve on (idx
\* counts from 0 as enumerate does); the result is the largest drawdown and
\* max_dd_duration
RECURSIVE DrawdownLoop(_, _, _, _, _, _)
DrawdownLoop(curve, idx, peak, dd_start, max_dd, max_dd_duration) ==
    IF idx >= Len(curve) THEN [max_drawdown |-> max_dd, duration |-> max_dd_duration]
    ELSE LET equity == curve[idx + 1]
             rises == equity > peak
             peak1 == IF rises THEN equity ELSE peak
             duration1 == IF rises /\ dd_start > 0
                          THEN Max2(max_dd_duration, idx - dd_start)
                          ELSE max_dd_duration
             dd_start1 == IF rises THEN idx ELSE dd_start
         IN  DrawdownLoop(curve, idx + 1, peak1, dd_start1,
                          Max2(max_dd, peak1 - equity), duration1)

\* "# Drawdown": peak = equity_curve[0], dd_start = 0, max_dd_duration = 0
Drawdown(curve) == DrawdownLoop(curve, 0, curve[1], 0, 0, 0)

\* BacktestEngine._calculate_statistics (for a ledger it does not raise on)
_calculate_statistics(ts, curve) ==
    IF ts = << >> THEN DefaultStats
    ELSE [total_trades |-> Len(ts),
          winning_trades |-> CountResult(ts, "WIN"),
          losing_trades |-> CountResult(ts, "LOSS"),
          breakeven_trades |-> CountResult(ts, "BREAKEVEN"),
          win_rate |-> Frac(CountResult(ts, "WIN") * 100, Len(ts)),
          total_pnl |-> SumPnl(ts),
          profit_factor |-> ProfitFactor(ts),
          max_drawdown |-> Drawdown(curve).max_drawdown,
          max_drawdown_duration |-> Drawdown(curve).duration,
          equity_curve |-> curve]

----------------------------------------------------------------------------
(* Backtest Runner: run_backtest as steps over a frame of its locals *)

\* the frame of run_backtest right after its initialisation
Frame0(cfg) ==
    [pc |-> "loop", i |-> 0, prev_close |-> 0, last_date |-> -1,
     in_trade |-> FALSE, current_trade |-> NoTrade, trades |-> << >>,
     capital |-> cfg.initial_capital, equity_curve |-> <<cfg.initial_capital>>,
     trade_id |-> 0, setup_counter |-> 0, statistics |-> NoStats,
     decision |-> [kind |-> "init"]]

\* bar 0 is only ever read as closes[0]: the loop starts at index 1
FirstBarF(f, bar) ==
    [f EXCEPT !.i = 1, !.prev_close = bar.close, !.last_date = bar.ts,
              !.decision = [kind |-> "first"]]

\* a slip: the continue after a close left out, the entry search runs on the exit bar
LoopBodyF_no_continue(f, cfg, bar) ==
    LET idx == f.i
        open_before == f.in_trade /\ f.current_trade # NoTrade
        exit_info == IF open_before
                     THEN _check_exit(f.current_trade, bar.high, bar.low, bar.close,
                                      idx, cfg)
                     ELSE NoExit
        seen == [kind |-> "bar", index |-> idx, high |-> bar.high, low |-> bar.low,
                 close |-> bar.close, ts |-> bar.ts, was_open |-> f.in_trade,
                 trade_before |-> f.current_trade, capital_before |-> f.capital,
                 prev_close |-> f.prev_close, exit |-> exit_info, opened |-> FALSE,
                 setup_id |-> 0]
        read == [f EXCEPT !.i = idx + 1, !.prev_close = bar.close, !.last_date = bar.ts]
    IN  IF exit_info # NoExit THEN
            IF CloseRaises(f.current_trade) THEN
                [read EXCEPT !.pc = "raised", !.decision = seen]
            ELSE
                LET trade == _close_trade(f.current_trade, bar.ts, exit_info.price,
                                          exit_info.reason, idx - f.current_trade.entry_bar,
                                          f.current_trade.mae, f.current_trade.mfe, cfg)
                    closed == [read EXCEPT !.trades = AppendTrade(f.trades, trade),
                                           !.capital = f.capital + trade.pnl,
                                           !.equity_curve =
                                               Append(f.equity_curve, f.capital + trade.pnl),
                                           !.in_trade = FALSE,
                                           !.current_trade = NoTrade,
                                           !.setup_counter = f.setup_counter + 1,
                                           !.decision = seen]
                    again == generate_setup(f.setup_counter, SignalPrice(f.prev_close, bar),
                                            cfg.po3_size, cfg.po3_size, 0, bar.ts)
                IN  IF again # None /\ _filter_setup(again, cfg) THEN
                        [closed EXCEPT !.trade_id = f.trade_id + 1,
                                       !.current_trade =
                                           NewTrade(again, f.trade_id + 1, idx, bar.ts,
                                                    closed.capital, cfg),
                                       !.in_trade = TRUE,
                                       !.decision = [seen EXCEPT !.opened = TRUE,
                                                                 !.setup_id = again.id]]
                    ELSE closed
        ELSE IF open_before THEN
            [read EXCEPT !.current_trade = UpdateExcursions(f.current_trade, bar.high, bar.low),
                         !.decision = seen]
        ELSE IF f.in_trade THEN [read EXCEPT !.decision = seen]
        ELSE
            LET setup == generate_setup(f.setup_counter, SignalPrice(f.prev_close, bar),
                                        cfg.po3_size, cfg.po3_size, 0, bar.ts)
            IN  IF setup # None /\ _filter_setup(setup, cfg) THEN
                    [read EXCEPT !.setup_counter = f.setup_counter + 1,
                                 !.trade_id = f.trade_id + 1,
                                 !.current_trade =
                                     NewTrade(setup, f.trade_id + 1, idx, bar.ts,
                                              f.capital, cfg),
                                 !.in_trade = TRUE,
                                 !.decision = [seen EXCEPT !.opened = TRUE,
                                                           !.setup_id = setup.id]]
                ELSE [read EXCEPT !.setup_counter = f.setup_counter + 1,
                                  !.decision =
                                      [seen EXCEPT !.setup_id =
                                          IF setup = None THEN 0 ELSE setup.id]]

\* one iteration of the for loop of run_backtest, on bar f.i
LoopBodyF(f, cfg, bar) ==
    LET idx == f.i
        open_before == f.in_trade /\ f.current_trade # NoTrade
        exit_info == IF open_before
                     THEN _check_exit(f.current_trade, bar.high, bar.low, bar.close,
                                      idx, cfg)
                     ELSE NoExit
        seen == [kind |-> "bar", index |-> idx, high |-> bar.high, low |-> bar.low,
                 close |-> bar.close, ts |-> bar.ts, was_open |-> f.in_trade,
                 trade_before |-> f.current_trade, capital_before |-> f.capital,
                 prev_close |-> f.prev_close, exit |-> exit_info, opened |-> FALSE,
                 setup_id |-> 0]
        read == [f EXCEPT !.i = idx + 1, !.prev_close = bar.close, !.last_date = bar.ts]
    IN  IF exit_info # NoExit THEN
            IF CloseRaises(f.current_trade) THEN
                [read EXCEPT !.pc = "raised", !.decision = seen]
            ELSE
                LET trade == _close_trade(f.current_trade, bar.ts, exit_info.price,
                                          exit_info.reason, idx - f.current_trade.entry_bar,
                                          f.current_trade.mae, f.current_trade.mfe, cfg)
                IN  [read EXCEPT !.trades = AppendTrade(f.trades, trade),
                                 !.capital = f.capital + trade.pnl,
                                 !.equity_curve = Append(f.equity_curve, f.capital + trade.pnl),
                                 !.in_trade = FALSE,
                                 !.current_trade = NoTrade,
                                 !.decision = seen]
        ELSE IF open_before THEN
            [read EXCEPT !.current_trade = UpdateExcursions(f.current_trade, bar.high, bar.low),
                         !.decision = seen]
        ELSE IF f.in_trade THEN [read EXCEPT !.decision = seen]
        ELSE
            LET setup == generate_setup(f.setup_counter, SignalPrice(f.prev_close, bar),
                                        cfg.po3_size, cfg.po3_size, 0, bar.ts)
            IN  IF setup # None /\ _filter_setup(setup, cfg) THEN
                    [read EXCEPT !.setup_counter = f.setup_counter + 1,
                                 !.trade_id = f.trade_id + 1,
                                 !.current_trade =
                                     NewTrade(setup, f.trade_id + 1, idx, bar.ts,
                                              f.capital, cfg),
                                 !.in_trade = TRUE,
                                 !.decision = [seen EXCEPT !.opened = TRUE,
                                                           !.setup_id = setup.id]]
                ELSE [read EXCEPT !.setup_counter = f.setup_counter + 1,
                                  !.decision =
                                      [seen EXCEPT !.setup_id =
                                          IF setup = None THEN 0 ELSE setup.id]]

\* a slip: the position still open at the end of the series is dropped
CloseRemainingF_drops(f, cfg) ==
    [f EXCEPT !.pc = "stats",
              !.decision = [kind |-> "close", was_open |-> f.in_trade,
                            trade_before |-> f.current_trade,
                            capital_before |-> f.capital]]

\* run_backtest after the loop: "Close any remaining trade"; the series has f.i bars
CloseRemainingF(f, cfg) ==
    LET seen == [kind |-> "close", was_open |-> f.in_trade,
                 trade_before |-> f.current_trade, capital_before |-> f.capital]
    IN  IF f.in_trade /\ f.current_trade # NoTrade THEN
            IF CloseRaises(f.current_trade) THEN
                [f EXCEPT !.pc = "raised", !.decision = seen]
            ELSE
                LET trade == _close_trade(f.current_trade, f.last_date, f.prev_close,
                                          "TIME_EXIT", f.i - f.current_trade.entry_bar,
                                          f.current_trade.mae, f.current_trade.mfe, cfg)
                IN  [f EXCEPT !.pc = "stats",
                              !.trades = AppendTrade(f.trades, trade),
                              !.capital = f.capital + trade.pnl,
                              !.equity_curve = Append(f.equity_curve, f.capital + trade.pnl),
                              !.decision = seen]
        ELSE [f EXCEPT !.pc = "stats", !.decision = seen]

\* run_backtest: "Calculate statistics" and return
StatisticsF(f) ==
    IF f.trades # << >> /\ StatsByDayRaises(f.trades)
    THEN [f EXCEPT !.pc = "raised"]
    ELSE [f EXCEPT !.pc = "done",
                   !.statistics = _calculate_statistics(f.trades, f.equity_curve)]

----------------------------------------------------------------------------
(* Inputs: configurations, bars and timestamps *)

MaxBars == 4
ShortHold == 2

\* BacktestConfig with its defaults, on a small bracket
DefaultConfig ==
    [initial_capital |-> 10000 * MoneyScale,
     position_size_pct |-> 1,
     commission |-> 0,
     slippage |-> 0,
     use_stop_loss |-> TRUE,
     min_signal_strength |-> "MEDIUM",
     allowed_plans |-> TradePlan,
     allowed_amd_cycles |-> {MANIPULATION, DISTRIBUTION_1},
     require_goldbach_time |-> FALSE,
     max_bars_in_trade |-> 50,
     po3_size |-> 27]

\* every filter tightened: strength, plans, cycle phases, special time
StrictConfig ==
    [DefaultConfig EXCEPT !.max_bars_in_trade = ShortHold,
                          !.commission = 2 * MoneyScale,
                          !.slippage = MoneyScale \div 2,
                          !.min_signal_strength = "STRONG",
                          !.allowed_plans = {EINSTEIN},
                          !.allowed_amd_cycles = {DISTRIBUTION_1},
                          !.require_goldbach_time = TRUE]

\* the default 50-bar limit, never reached in these series, and no stop
LongHoldConfig == [DefaultConfig EXCEPT !.use_stop_loss = FALSE]

Configs ==
    {[DefaultConfig EXCEPT !.use_stop_loss = u, !.max_bars_in_trade = ShortHold] :
        u \in BOOLEAN}
    \cup {StrictConfig, LongHoldConfig}

\* prices of the bracket [108, 135) of size 27: positions 3.7, 29.6, 50, 59.3, 96.3
PriceGrid == {Pts(109, 0), Pts(116, 0), Pts(121, PriceScale \div 2), Pts(124, 0), Pts(134, 0)}

\* Fri 8 Mar 09:20, Sat 9 Mar 10:00, Mon 11 Mar 04:15, Mon 11 Mar 14:00, Tue 12 Mar 10:01
TimeGrid == {Stamp(3, 8, 9, 20), Stamp(3, 9, 10, 0), Stamp(3, 11, 4, 15),
             Stamp(3, 11, 14, 0), Stamp(3, 12, 10, 1)}

\* bars with low <= open, close <= high; the runner never reads the open
Shapes ==
    {s \in [open : PriceGrid, high : PriceGrid, low : PriceGrid, close : PriceGrid] :
        /\ s.open = s.low
        /\ s.low <= s.close /\ s.close <= s.high}

Bar(s, t) == [open |-> s.open, high |-> s.high, low |-> s.low, close |-> s.close, ts |-> t]

----------------------------------------------------------------------------
(* One backtest run *)

Cur ==
    [pc |-> pc, i |-> i, prev_close |-> prev_close, last_date |-> last_date,
     in_trade |-> in_trade, current_trade |-> current_trade, trades |-> trades,
     capital |-> capital, equity_curve |-> equity_curve, trade_id |-> trade_id,
     setup_counter |-> setup_counter, statistics |-> statistics,
     decision |-> decision]

SetFrame(f) ==
    LET g == f IN
    /\ pc' = g.pc
    /\ i' = g.i
    /\ prev_close' = g.prev_close
    /\ last_date' = g.last_date
    /\ in_trade' = g.in_trade
    /\ current_trade' = g.current_trade
    /\ trades' = g.trades
    /\ capital' = g.capital
    /\ equity_curve' = g.equity_curve
    /\ trade_id' = g.trade_id
    /\ setup_counter' = g.setup_counter
    /\ statistics' = g.statistics
    /\ decision' = g.decision

Idle == [kind |-> "idle"]

Init ==
    /\ config \in Configs
    /\ pc = "loop"
    /\ i = 0
    /\ prev_close = 0
    /\ last_date = -1
    /\ in_trade = FALSE
    /\ current_trade = NoTrade
    /\ trades = << >>
    /\ capital = config.initial_capital
    /\ equity_curve = <<config.initial_capital>>
    /\ trade_id = 0
    /\ setup_counter = 0
    /\ statistics = NoStats
    /\ decision = [kind |-> "init"]
    /\ other = Idle
    /\ call = Idle

\* the data has a bar 0
FirstBar ==
    /\ pc = "loop"
    /\ i = 0
    /\ \E s \in Shapes, t \in TimeGrid : SetFrame(FirstBarF(Cur, Bar(s, t)))
    /\ UNCHANGED <<config, other, call>>

\* the data has a bar i, later than bar i-1: one loop iteration
LoopBody ==
    /\ pc = "loop"
    /\ i >= 1
    /\ i < MaxBars
    /\ \E s \in Shapes, t \in TimeGrid :
        /\ t > last_date
        /\ SetFrame(LoopBodyF(Cur, config, Bar(s, t)))
    /\ UNCHANGED <<config, other, call>>

\* the data has exactly i bars: the loop is over
CloseRemaining ==
    /\ pc = "loop"
    /\ SetFrame(CloseRemainingF(Cur, config))
    /\ UNCHANGED <<config, other, call>>

CalculateStatistics ==
    /\ pc = "stats"
    /\ SetFrame(StatisticsF(Cur))
    /\ UNCHANGED <<config, other, call>>

Next == FirstBar \/ LoopBody \/ CloseRemaining \/ CalculateStatistics

Spec == Init /\ [][Next]_vars

----------------------------------------------------------------------------
(* Direct calls of generate_setup on one engine *)

\* the levels at which a rule of the plan table begins or ends
BandLevels == {0, 11, 17, 29, 35, 41, 50, 59, 65, 71, 83, 89, 100}

\* prices one tick below, at and one tick above every band edge of the bracket
\* [108, 135) of size 27, prices below 100 (0.28345, 0.2835, 1.08505, 99.99995) and
\* the index price 21500
SetupPrices ==
    {Pts(108, 0) + (l * 27 * PriceScale) \div 100 + d : l \in BandLevels, d \in {-1, 0, 1}}
    \cup {5669, 5670, Pts(1, 1701), Pts(99, PriceScale - 1), Pts(21500, 0)}

\* 0 is po3_size=None: the engine's default bracket size is used
SetupSizes == {0, 9, 27, 729}

TrendDays == {-6, -3, 0, 2, 7}

InitSetup ==
    /\ config = DefaultConfig
    /\ pc = "idle"
    /\ i = 0
    /\ prev_close = 0
    /\ last_date = -1
    /\ in_trade = FALSE
    /\ current_trade = NoTrade
    /\ trades = << >>
    /\ capital = 0
    /\ equity_curve = << >>
    /\ trade_id = 0
    /\ setup_counter = 0
    /\ statistics = NoStats
    /\ decision = Idle
    /\ other = Idle
    /\ \E price \in SetupPrices, size \in SetupSizes, trend \in TrendDays, t \in TimeGrid :
        call = [kind |-> "args", price |-> price, po3_size |-> size,
                trend_days |-> trend, time |-> t]

\* engine.generate_setup(price, symbol, po3_size, trend_days, time) on the engine
\* GoldbachEngine(), whose default_po3 is DEFAULT_PO3; range, position and bias are
\* the values generate_setup computes on its way
GenerateSetup ==
    /\ call.kind = "args"
    /\ LET r == calculate_range(call.price, call.po3_size, DEFAULT_PO3)
       IN  call' = [kind |-> "setup", price |-> call.price, po3_size |-> call.po3_size,
                    trend_days |-> call.trend_days, time |-> call.time,
                    range |-> r,
                    position |-> get_position(r, call.price),
                    bias |-> analyze_bias(call.price, call.po3_size, DEFAULT_PO3,
                                          call.trend_days),
                    setup |-> generate_setup(setup_counter, call.price, call.po3_size,
                                             DEFAULT_PO3, call.trend_days, call.time)]
    /\ setup_counter' = setup_counter + 1
    /\ UNCHANGED <<pc, config, i, prev_close, last_date, in_trade, current_trade, trades,
                   capital, equity_curve, trade_id, statistics, decision, other>>

NextSetup == GenerateSetup

SpecSetup == InitSetup /\ [][NextSetup]_vars

----------------------------------------------------------------------------
(* Two backtest runs over two series with the same timestamps *)

MaxPairBars == 3

PairConfig == [DefaultConfig EXCEPT !.max_bars_in_trade = ShortHold]

PairShapes ==
    {s \in [open : {Pts(109, 0), Pts(134, 0)}, high : {Pts(134, 0)}, low : {Pts(109, 0)},
            close : {Pts(109, 0), Pts(124, 0)}] : TRUE}
    \cup {[open |-> c, high |-> c, low |-> c, close |-> c] :
            c \in {Pts(109, 0), Pts(121, PriceScale \div 2), Pts(124, 0)}}

InitPair ==
    /\ Init
    /\ config = PairConfig

PairFirstBar ==
    /\ pc = "loop"
    /\ i = 0
    /\ \E s1 \in PairShapes, s2 \in PairShapes, t \in TimeGrid :
        /\ SetFrame(FirstBarF(Cur, Bar(s1, t)))
        /\ other' = FirstBarF(Frame0(config), Bar(s2, t))
    /\ UNCHANGED <<config, call>>

PairLoopBody ==
    /\ pc = "loop"
    /\ i >= 1
    /\ i < MaxPairBars
    /\ \E s1 \in PairShapes, s2 \in PairShapes, t \in TimeGrid :
        /\ t > last_date
        /\ \E after \in {[run \in {1, 2} |->
                            LoopBodyF(IF run = 1 THEN Cur ELSE other, config,
                                      Bar(IF run = 1 THEN s1 ELSE s2, t))]} :
              /\ SetFrame(after[1])
              /\ other' = after[2]
    /\ UNCHANGED <<config, call>>

NextPair == PairFirstBar \/ PairLoopBody

SpecPair == InitPair /\ [][NextPair]_vars

----------------------------------------------------------------------------
(* Monte Carlo: monte_carlo over the ledger of the engine (SpecMonteCarlo) *)

MaxLedger == 3

PnlGrid == {(0 - 300) * MoneyScale, 0, 150 * MoneyScale, 400 * MoneyScale}

SimCounts == {1, 2}

\* a ledger as monte_carlo reads it: the trades' pnl
LedgerOf(pnls) ==
    [k \in 1..Len(pnls) |->
        [id |-> k, pnl |-> pnls[k],
         result |-> IF pnls[k] > 0 THEN "WIN" ELSE IF pnls[k] < 0 THEN "LOSS" ELSE "BREAKEVEN"]]

Ledgers == {LedgerOf(p) : p \in UNION {[1..n -> PnlGrid] : n \in 0..MaxLedger}}

\* the equity curve run_backtest builds while it appends the ledger ts: the seed,
\* then the capital after each trade
RECURSIVE EquityCurveOf(_, _)
EquityCurveOf(seed, ts) ==
    IF ts = << >> THEN <<seed>>
    ELSE <<seed>> \o EquityCurveOf(seed + ts[1].pnl, Tail(ts))

\* a slip: P&Ls resampled with replacement instead of permuted
ShufflesResampled(pnls) ==
    {[k \in 1..Len(pnls) |-> pnls[f[k]]] : f \in [1..Len(pnls) -> 1..Len(pnls)]}

\* np.random.permutation(pnls): any one of the orderings of pnls
Shuffles(pnls) ==
    {[k \in 1..Len(pnls) |-> pnls[f[k]]] :
        f \in {g \in [1..Len(pnls) -> 1..Len(pnls)] :
                 \A a, b \in 1..Len(pnls) : g[a] = g[b] => a = b}}

\* monte_carlo's inner loop from element k on; max_dd in 1/100 of a percent
RECURSIVE Replay(_, _, _, _, _)
Replay(shuffled, k, equity, peak, max_dd) ==
    IF k > Len(shuffled) THEN [equity |-> equity, max_dd |-> max_dd]
    ELSE LET e == equity + shuffled[k]
             p == IF e > peak THEN e ELSE peak
             dd == MulDiv(p - e, 100 * 100, p)
         IN  Replay(shuffled, k + 1, e, p, Max2(max_dd, dd))

RECURSIVE SeqSum(_)
SeqSum(xs) == IF xs = << >> THEN 0 ELSE xs[1] + SeqSum(Tail(xs))

SeqMin(xs) == CHOOSE x \in {xs[k] : k \in 1..Len(xs)} : \A k \in 1..Len(xs) : x <= xs[k]
SeqMax(xs) == CHOOSE x \in {xs[k] : k \in 1..Len(xs)} : \A k \in 1..Len(xs) : x >= xs[k]

EmptyDict == [kind |-> "empty"]

\* BacktestEngine.monte_carlo with the permutation drawn in each simulation given;
\* the mean is the floor of sum / n in money units
monte_carlo(ts, cfg, draws) ==
    IF ts = << >> THEN EmptyDict
    ELSE LET sims == [k \in 1..Len(draws) |->
                        Replay(draws[k], 1, cfg.initial_capital, cfg.initial_capital, 0)]
             final_capitals == [k \in 1..Len(draws) |-> sims[k].equity]
             max_drawdowns == [k \in 1..Len(draws) |-> sims[k].max_dd]
         IN  [kind |-> "monte_carlo",
              final_capitals |-> final_capitals,
              max_drawdowns |-> max_drawdowns,
              final_capital |-> [mean |-> SeqSum(final_capitals) \div Len(draws),
                                 min |-> SeqMin(final_capitals),
                                 max |-> SeqMax(final_capitals)],
              max_drawdown |-> [min |-> SeqMin(max_drawdowns),
                                max |-> SeqMax(max_drawdowns)],
              risk_of_ruin |->
                  (Cardinality({k \in 1..Len(draws) : final_capitals[k] <= 0}) * 100)
                      \div Len(draws)]

InitMonteCarlo ==
    /\ config = DefaultConfig
    /\ pc = "done"
    /\ i = 0
    /\ prev_close = 0
    /\ last_date = -1
    /\ in_trade = FALSE
    /\ current_trade = NoTrade
    /\ trades \in Ledgers
    /\ capital = config.initial_capital
    /\ equity_curve = << >>
    /\ trade_id = Len(trades)
    /\ setup_counter = 0
    /\ statistics = NoStats
    /\ decision = Idle
    /\ other = Idle
    /\ call = Idle

MonteCarlo ==
    /\ pc = "done"
    /\ call = Idle
    /\ \E num_simulations \in SimCounts :
         \E draws \in [1..num_simulations -> Shuffles([k \in 1..Len(trades) |-> trades[k].pnl])] :
            call' = [kind |-> "monte_carlo", num_simulations |-> num_simulations,
                     result |-> monte_carlo(trades, config, draws)]
    /\ UNCHANGED <<pc, config, i, prev_close, last_date, in_trade, current_trade, trades,
                   capital, equity_curve, trade_id, setup_counter, statistics, decision,
                   other>>

NextMonteCarlo == MonteCarlo

SpecMonteCarlo == InitMonteCarlo /\ [][NextMonteCarlo]_vars

----------------------------------------------------------------------------
(* Walk-forward analysis: walk_forward and _calculate_robustness (SpecWalkForward) *)

FracMul(a, b) == Frac(a.num * b.num, a.den * b.den)
FracDiv(a, b) == Frac(a.num * b.den, a.den * b.num)
FracAdd(a, b) == Frac(a.num * b.den + b.num * a.den, a.den * b.den)
FracLT(a, b) == a.num * b.den < b.num * a.den
Whole(k) == Frac(k, 1)

\* a slip: the score returned without the clamp to [0, 100]
_calculate_robustness_unclamped(in_stats, out_stats) ==
    IF in_stats.win_rate = Zero THEN Zero
    ELSE LET win_rate_ratio == FracDiv(out_stats.win_rate, in_stats.win_rate)
             pf_ratio == IF FracLT(Zero, in_stats.profit_factor)
                         THEN FracDiv(out_stats.profit_factor, in_stats.profit_factor)
                         ELSE Zero
         IN  FracAdd(FracMul(win_rate_ratio, Whole(50)), FracMul(pf_ratio, Whole(50)))

\* BacktestEngine._calculate_robustness
_calculate_robustness(in_stats, out_stats) ==
    IF in_stats.win_rate = Zero THEN Zero
    ELSE LET win_rate_ratio == IF FracLT(Zero, in_stats.win_rate)
                               THEN FracDiv(out_stats.win_rate, in_stats.win_rate)
                               ELSE Zero
             pf_ratio == IF FracLT(Zero, in_stats.profit_factor)
                         THEN FracDiv(out_stats.profit_factor, in_stats.profit_factor)
                         ELSE Zero
             score == FracAdd(FracMul(win_rate_ratio, Whole(50)), FracMul(pf_ratio, Whole(50)))
             floored == IF FracLT(score, Zero) THEN Zero ELSE score
         IN  IF FracLT(Whole(100), floored) THEN Whole(100) ELSE floored

\* the for loop of run_backtest from bar f.i to the end of data
RECURSIVE LoopFrom(_, _, _)
LoopFrom(f, cfg, data) ==
    IF f.pc # "loop" \/ f.i >= Len(data) THEN f
    ELSE LoopFrom(LoopBodyF(f, cfg, data[f.i + 1]), cfg, data)

\* after the loop: positions still open are closed, unless the run raised
CloseRemainingAfter(f, cfg) == IF f.pc = "loop" THEN CloseRemainingF(f, cfg) ELSE f

\* the last statement of run_backtest: the statistics of the ledger
StatisticsAfter(f) == IF f.pc = "stats" THEN StatisticsF(f) ELSE f

\* run_backtest as one call on an engine whose setup counter stands at counter; the
\* frame returned has pc "done" (statistics set) or "raised"
run_backtest(cfg, data, counter) ==
    StatisticsAfter(CloseRemainingAfter(
        IF data = << >> THEN [Frame0(cfg) EXCEPT !.setup_counter = counter]
        ELSE LoopFrom(FirstBarF([Frame0(cfg) EXCEPT !.setup_counter = counter], data[1]),
                      cfg, data),
        cfg))

NoneValue == -1

\* data.iloc[a:b] for 0 <= a and b within the series
Slice(data, a, b) == SubSeq(data, a + 1, b)

\* one entry of a walk_forward result: start / end timestamps, trades, win_rate, pnl
Segment(data, stats) ==
    [start |-> IF Len(data) > 0 THEN data[1].ts ELSE NoneValue,
     end |-> IF Len(data) > 0 THEN data[Len(data)].ts ELSE NoneValue,
     trades |-> stats.total_trades,
     win_rate |-> stats.win_rate,
     pnl |-> stats.total_pnl]

MaxSeries == 7

FoldCounts == {1, 2, 3}

\* in_sample_pct in percent
InSamplePcts == {50, 70}

\* weekday bars at 03:15, 06:15, 09:15, 12:15 from Mon 11 Mar 2024 on
SeriesStamp(k) == Stamp(3, 11 + ((k - 1) \div 4), 3 + 3 * ((k - 1) % 4), 15)

SeriesCloses ==
    {<<Pts(109, 0), Pts(116, 0), Pts(121, PriceScale \div 2), Pts(124, 0), Pts(134, 0)>>,
     <<Pts(109, 0), Pts(124, 0)>>}

\* bars over 109..134 whose closes cycle through the given closes
SeriesOf(closes, n) ==
    [k \in 1..n |->
        [open |-> Pts(109, 0), high |-> Pts(134, 0), low |-> Pts(109, 0),
         close |-> closes[((k - 1) % Len(closes)) + 1], ts |-> SeriesStamp(k)]]

\* a slip: the in-sample length taken as a fraction of the series, not of the fold
FoldCutSeriesFraction(total_len, in_sample_pct, num_folds, fold) ==
    LET fold_size == total_len \div num_folds
        fold_start == fold * fold_size
        fold_end == fold_start + fold_size
        in_sample_end == fold_start + ((total_len * in_sample_pct) \div 100)
    IN  [fold_start |-> fold_start, in_sample_end |-> in_sample_end, fold_end |-> fold_end]

\* the part of a loop iteration of walk_forward that cuts the fold
FoldCut(total_len, in_sample_pct, num_folds, fold) ==
    LET fold_size == total_len \div num_folds
        fold_start == fold * fold_size
        fold_end == fold_start + fold_size
        in_sample_end == fold_start + ((fold_size * in_sample_pct) \div 100)
    IN  [fold_start |-> fold_start, in_sample_end |-> in_sample_end, fold_end |-> fold_end]

InitWalkForward ==
    /\ config = DefaultConfig
    /\ pc = "idle"
    /\ i = 0
    /\ prev_close = 0
    /\ last_date = -1
    /\ in_trade = FALSE
    /\ current_trade = NoTrade
    /\ trades = << >>
    /\ capital = 0
    /\ equity_curve = << >>
    /\ trade_id = 0
    /\ setup_counter = 0
    /\ statistics = NoStats
    /\ decision = Idle
    /\ other = Idle
    /\ \E closes \in SeriesCloses, n \in 0..MaxSeries, pct \in InSamplePcts, k \in FoldCounts :
         call = [kind |-> "walk_forward", data |-> SeriesOf(closes, n),
                 in_sample_pct |-> pct, num_folds |-> k, fold |-> 0,
                 results |-> << >>, returned |-> FALSE]

\* one iteration of the loop over the folds, both backtests included
WalkForwardFold ==
    /\ call.kind = "walk_forward"
    /\ ~call.returned
    /\ call.fold < call.num_folds
    /\ LET cut == FoldCut(Len(call.data), call.in_sample_pct, call.num_folds, call.fold)
           in_sample_data == Slice(call.data, cut.fold_start, cut.in_sample_end)
           out_sample_data == Slice(call.data, cut.in_sample_end, cut.fold_end)
       IN  \E ran \in {[r \in {1, 2} |-> run_backtest(config,
                                            IF r = 1 THEN in_sample_data ELSE out_sample_data,
                                            setup_counter)]} :
             IF ran[1].pc = "raised" \/ ran[2].pc = "raised" THEN
                /\ call' = [kind |-> "raised"]
                /\ UNCHANGED <<trades, statistics, setup_counter>>
             ELSE
                /\ call' = [call EXCEPT
                       !.fold = call.fold + 1,
                       !.results = Append(call.results,
                           [fold |-> call.fold + 1,
                            in_sample_data |-> in_sample_data,
                            out_sample_data |-> out_sample_data,
                            in_sample |-> Segment(in_sample_data, ran[1].statistics),
                            out_of_sample |-> Segment(out_sample_data, ran[2].statistics),
                            robustness_score |->
                                _calculate_robustness(ran[1].statistics, ran[2].statistics)])]
                /\ trades' = ran[2].trades
                /\ statistics' = ran[2].statistics
                /\ setup_counter' = setup_counter
                                    + (ran[1].setup_counter - setup_counter)
                                    + (ran[2].setup_counter - setup_counter)
    /\ UNCHANGED <<pc, config, i, prev_close, last_date, in_trade, current_trade, capital,
                   equity_curve, trade_id, decision, other>>

WalkForwardReturn ==
    /\ call.kind = "walk_forward"
    /\ ~call.returned
    /\ call.fold = call.num_folds
    /\ call' = [call EXCEPT !.returned = TRUE]
    /\ UNCHANGED <<pc, config, i, prev_close, last_date, in_trade, current_trade, trades,
                   capital, equity_curve, trade_id, setup_counter, statistics, decision,
                   other>>

NextWalkForward == WalkForwardFold \/ WalkForwardReturn

SpecWalkForward == InitWalkForward /\ [][NextWalkForward]_vars

----------------------------------------------------------------------------
(* _calculate_robustness over the statistics of two ledgers (SpecRobustness) *)

InitRobustness ==
    /\ config = DefaultConfig
    /\ pc = "idle"
    /\ i = 0
    /\ prev_close = 0
    /\ last_date = -1
    /\ in_trade = FALSE
    /\ current_trade = NoTrade
    /\ trades = << >>
    /\ capital = 0
    /\ equity_curve = << >>
    /\ trade_id = 0
    /\ setup_counter = 0
    /\ statistics = NoStats
    /\ decision = Idle
    /\ other = Idle
    /\ \E in_trades \in Ledgers, out_trades \in Ledgers :
         call = [kind |-> "stats", in_trades |-> in_trades, out_trades |-> out_trades]

\* the statistics of the two ledgers, then _calculate_robustness on the pair
CalculateRobustness ==
    /\ call.kind = "stats"
    /\ \E st \in {[r \in {1, 2} |->
                    _calculate_statistics(
                        IF r = 1 THEN call.in_trades ELSE call.out_trades,
                        EquityCurveOf(config.initial_capital,
                                      IF r = 1 THEN call.in_trades ELSE call.out_trades))]} :
         call' = [kind |-> "robustness", in_stats |-> st[1], out_stats |-> st[2],
                  score |-> _calculate_robustness(st[1], st[2])]
    /\ UNCHANGED <<pc, config, i, prev_close, last_date, in_trade, current_trade, trades,
                   capital, equity_curve, trade_id, setup_counter, statistics, decision,
                   other>>

NextRobustness == CalculateRobustness

SpecRobustness == InitRobustness /\ [][NextRobustness]_vars

----------------------------------------------------------------------------
(* Two backtest instances, each with its own engine, interleaved (SpecEngines) *)

\* a slip: the run counts its setups on an engine shared with the other run
EngineCounterShared(own, others) == others

\* BacktestEngine.__init__ gives every instance its own GoldbachEngine: a run's
\* generate_setup counts on self.engine.setup_counter
EngineCounter(own, others) == own

\* the next step of run_backtest over data from the frame f
StepF(f, cfg, data) ==
    IF f.pc = "loop" /\ f.i = 0 /\ data # << >> THEN FirstBarF(f, data[1])
    ELSE IF f.pc = "loop" /\ f.i < Len(data) THEN LoopBodyF(f, cfg, data[f.i + 1])
    ELSE IF f.pc = "loop" THEN CloseRemainingF(f, cfg)
    ELSE IF f.pc = "stats" THEN StatisticsF(f)
    ELSE f

EngineSeries == {SeriesOf(closes, n) : closes \in SeriesCloses, n \in 0..MaxSeries}

InitEngines ==
    /\ config = DefaultConfig
    /\ pc = "loop"
    /\ i = 0
    /\ prev_close = 0
    /\ last_date = -1
    /\ in_trade = FALSE
    /\ current_trade = NoTrade
    /\ trades = << >>
    /\ capital = config.initial_capital
    /\ equity_curve = <<config.initial_capital>>
    /\ trade_id = 0
    /\ setup_counter = 0
    /\ statistics = NoStats
    /\ decision = [kind |-> "init"]
    /\ \E d1 \in EngineSeries, d2 \in EngineSeries :
         call = [kind |-> "engines", data |-> <<d1, d2>>,
                 configs |-> <<config, [DefaultConfig EXCEPT !.max_bars_in_trade = ShortHold]>>]
    /\ other = Frame0(call.configs[2])

\* one step of one of the two instances: who = 1 steps the first, who = 2 the second
StepInstance(who) ==
    /\ call.kind = "engines"
    /\ (IF who = 1 THEN pc ELSE other.pc) \in {"loop", "stats"}
    /\ \E g \in {StepF(IF who = 1
                        THEN [Cur EXCEPT !.setup_counter =
                                  EngineCounter(setup_counter, other.setup_counter)]
                        ELSE [other EXCEPT !.setup_counter =
                                  EngineCounter(other.setup_counter, setup_counter)],
                      call.configs[who], call.data[who])} :
         IF who = 1
         THEN SetFrame(g) /\ UNCHANGED other
         ELSE /\ other' = g
              /\ UNCHANGED <<pc, i, prev_close, last_date, in_trade, current_trade, trades,
                             capital, equity_curve, trade_id, setup_counter, statistics,
                             decision>>
    /\ UNCHANGED <<config, call>>

\* the scheduler runs a step of either instance
NextEngines == \E who \in {1, 2} : StepInstance(who)

SpecEngines == InitEngines /\ [][NextEngines]_vars

----------------------------------------------------------------------------
(* The time functions of GoldbachEngine, each called once on a timestamp *)

MaxCount == 3

\* every minute of Monday 2024-03-11, and 14:29 of every day of 2024
ClockTimes ==
    {Stamp(3, 11, h, m) : h \in 0..23, m \in 0..59}
    \cup {d * MinutesPerDay + 14 * 60 + 29 : d \in 0..365}

\* the while loop of get_next_goldbach_times, current and results as they stand
RECURSIVE NextTimesFrom(_, _, _)
NextTimesFrom(current, results, count) ==
    IF Len(results) >= count THEN results
    ELSE LET gb_time == analyze_goldbach_time(current + 1)
         IN  NextTimesFrom(current + 1,
                           IF gb_time.is_goldbach THEN Append(results, gb_time)
                           ELSE results,
                           count)

\* a slip: the start minute itself is examined first
get_next_goldbach_times_from_start(from_time, count) ==
    NextTimesFrom(from_time - 1, << >>, count)

\* GoldbachEngine.get_next_goldbach_times
get_next_goldbach_times(from_time, count) == NextTimesFrom(from_time, << >>, count)

InitClock ==
    /\ config = DefaultConfig
    /\ pc = "idle"
    /\ i = 0
    /\ prev_close = 0
    /\ last_date = -1
    /\ in_trade = FALSE
    /\ current_trade = NoTrade
    /\ trades = << >>
    /\ capital = 0
    /\ equity_curve = << >>
    /\ trade_id = 0
    /\ setup_counter = 0
    /\ statistics = NoStats
    /\ decision = Idle
    /\ other = Idle
    /\ \E t \in ClockTimes, n \in 0..MaxCount :
         call = [kind |-> "clock", time |-> t, count |-> n]

ClockUnchanged ==
    UNCHANGED <<pc, config, i, prev_close, last_date, in_trade, current_trade, trades,
                capital, equity_curve, trade_id, setup_counter, statistics, decision,
                other>>

AnalyzeGoldbachTime ==
    /\ call.kind = "clock"
    /\ call' = [kind |-> "goldbach_time", time |-> call.time,
                result |-> analyze_goldbach_time(call.time)]
    /\ ClockUnchanged

GetMonthlyPartitionInfo ==
    /\ call.kind = "clock"
    /\ call' = [kind |-> "partition", time |-> call.time,
                result |-> get_monthly_partition_info(call.time)]
    /\ ClockUnchanged

GetNextGoldbachTimes ==
    /\ call.kind = "clock"
    /\ call' = [kind |-> "next_times", time |-> call.time, count |-> call.count,
                result |-> get_next_goldbach_times(call.time, call.count)]
    /\ ClockUnchanged

NextClock == AnalyzeGoldbachTime \/ GetMonthlyPartitionInfo \/ GetNextGoldbachTimes

SpecClock == InitClock /\ [][NextClock]_vars

----------------------------------------------------------------------------
(* _calculate_statistics called on a ledger and the equity curve of its run *)

InitStatistics ==
    /\ config = DefaultConfig
    /\ pc = "idle"
    /\ i = 0
    /\ prev_close = 0
    /\ last_date = -1
    /\ in_trade = FALSE
    /\ current_trade = NoTrade
    /\ capital = 0
    /\ trade_id = 0
    /\ setup_counter = 0
    /\ statistics = NoStats
    /\ decision = Idle
    /\ other = Idle
    /\ call = [kind |-> "ledger"]
    /\ trades \in Ledgers
    /\ equity_curve = EquityCurveOf(config.initial_capital, trades)

StatisticsOfLedger ==
    /\ call.kind = "ledger"
    /\ statistics' = _calculate_statistics(trades, equity_curve)
    /\ call' = [kind |-> "statistics"]
    /\ UNCHANGED <<pc, config, i, prev_close, last_date, in_trade, current_trade, trades,
                   capital, equity_curve, trade_id, setup_counter, decision, other>>

NextStatistics == StatisticsOfLedger

SpecStatistics == InitStatistics /\ [][NextStatistics]_vars

----------------------------------------------------------------------------
(* Properties of the Backtest Runner (Spec) *)

LastTrade == trades[Len(trades)]

\* the exit conditions of _check_exit, read off the bar and the position as they
\* were when the iteration began
Held(d) == d.index - d.trade_before.entry_bar
TimeDue(d) == Held(d) >= config.max_bars_in_trade
StopTouched(d) ==
    IF d.trade_before.direction = "LONG" THEN d.low <= d.trade_before.stop_loss
    ELSE d.high >= d.trade_before.stop_loss
Target2Touched(d) ==
    IF d.trade_before.direction = "LONG" THEN d.high >= d.trade_before.target_2
    ELSE d.low <= d.trade_before.target_2
Target1Touched(d) ==
    IF d.trade_before.direction = "LONG" THEN d.high >= d.trade_before.target_1
    ELSE d.low <= d.trade_before.target_1

PriorityExit(d, stop_counts) ==
    IF TimeDue(d) THEN "TIME_EXIT"
    ELSE IF stop_counts /\ StopTouched(d) THEN "STOP_LOSS"
    ELSE IF Target2Touched(d) THEN "TARGET_2"
    ELSE IF Target1Touched(d) THEN "TARGET_1"
    ELSE "None"

\* C1: there is one position slot, open exactly while in_trade; every position opened
\* is closed once and appended once, so ledger ids are 1..n in order, during the loop
\* the ledger holds every opened position but the open one, and after the loop the
\* ledger count equals the number of positions opened.
C1_OnePositionLedgerCount ==
    /\ in_trade <=> (current_trade # NoTrade)
    /\ \A k \in 1..Len(trades) : trades[k].id = k
    /\ pc = "loop" => trade_id = Len(trades) + (IF in_trade THEN 1 ELSE 0)
    /\ (pc = "loop" /\ in_trade) => current_trade.id = trade_id
    /\ pc \in {"stats", "done"} => trade_id = Len(trades)
    /\ (decision.kind = "bar" /\ decision.exit # NoExit)
         => (decision.was_open /\ ~in_trade /\ LastTrade.id = decision.trade_before.id)

C1_Witness == pc = "done" /\ Len(trades) = 2 /\ trade_id = 2

\* C2 as amended: on a bar read while a position is open the exit taken is the first
\* that holds of: bars held >= max_bars_in_trade (TIME_EXIT), stop touched with
\* use_stop_loss enabled (STOP_LOSS), second target touched (TARGET_2), first target
\* touched (TARGET_1); one trade with that reason is appended, or none if none holds.
C2_ExitPriority ==
    (decision.kind = "bar" /\ decision.was_open) =>
        /\ decision.exit.reason = PriorityExit(decision, config.use_stop_loss)
        /\ decision.exit # NoExit =>
            (~in_trade /\ LastTrade.exit_reason = decision.exit.reason
                       /\ LastTrade.id = decision.trade_before.id)
        /\ decision.exit = NoExit => (in_trade /\ current_trade.id = decision.trade_before.id)

C2_Witness ==
    /\ decision.kind = "bar"
    /\ decision.was_open
    /\ config.use_stop_loss
    /\ ~TimeDue(decision)
    /\ StopTouched(decision)
    /\ Target2Touched(decision)
    /\ decision.exit.reason = "STOP_LOSS"
    /\ decision.trade_before.direction = "SHORT"

\* C2 as claimed: the stop, whenever touched, precedes the targets (whatever
\* use_stop_loss says).
C2_AsClaimed ==
    (decision.kind = "bar" /\ decision.was_open) =>
        decision.exit.reason = PriorityExit(decision, TRUE)

\* C3: a ledger trade's exit price is its stop for STOP_LOSS, its first / second
\* target for TARGET_1 / TARGET_2 and the close of the exit bar for TIME_EXIT (the
\* last bar's close when it is closed at the end of the series); a LONG whose bar has
\* high >= target-2, low above the stop and bars held below the limit is closed on
\* that bar at the target-2 price with reason TARGET_2.
C3_ExitPriceByReason ==
    /\ \A k \in 1..Len(trades) :
        /\ trades[k].exit_reason \in {"STOP_LOSS", "TARGET_1", "TARGET_2", "TIME_EXIT"}
        /\ trades[k].exit_reason = "STOP_LOSS" => trades[k].exit_price = trades[k].stop_loss
        /\ trades[k].exit_reason = "TARGET_1" => trades[k].exit_price = trades[k].target_1
        /\ trades[k].exit_reason = "TARGET_2" => trades[k].exit_price = trades[k].target_2
    /\ (decision.kind = "bar" /\ decision.exit # NoExit) =>
        /\ LastTrade.exit_reason = decision.exit.reason
        /\ LastTrade.exit_time = decision.ts
        /\ LastTrade.exit_reason = "TIME_EXIT" => LastTrade.exit_price = decision.close
    /\ (decision.kind = "close" /\ decision.was_open) =>
        (LastTrade.exit_reason = "TIME_EXIT" /\ LastTrade.exit_price = prev_close)
    /\ (/\ decision.kind = "bar"
        /\ decision.was_open
        /\ decision.trade_before.direction = "LONG"
        /\ decision.high >= decision.trade_before.target_2
        /\ decision.low > decision.trade_before.stop_loss
        /\ Held(decision) < config.max_bars_in_trade) =>
        /\ ~in_trade
        /\ LastTrade.exit_reason = "TARGET_2"
        /\ LastTrade.exit_price = decision.trade_before.target_2
        /\ LastTrade.exit_price # LastTrade.target_1
        /\ LastTrade.exit_price # LastTrade.stop_loss

C3_Witness ==
    /\ decision.kind = "bar"
    /\ decision.was_open
    /\ decision.trade_before.direction = "LONG"
    /\ Held(decision) = 1
    /\ decision.high >= decision.trade_before.target_2
    /\ decision.low > decision.trade_before.stop_loss
    /\ decision.close # decision.trade_before.target_2
    /\ LastTrade.exit_reason = "TARGET_2"

\* C5: once the loop is over no opened position is missing from the ledger; a
\* position still open at the end of the series is appended exactly once, with the
\* last bar's close as exit price, the last bar's timestamp as exit time and reason
\* TIME_EXIT, and its P&L is added to the capital and to the equity curve.
C5_ForceClose ==
    pc \in {"stats", "done"} =>
        /\ decision.kind = "close"
        /\ trade_id = Len(trades)
        /\ Len(equity_curve) = Len(trades) + 1
        /\ decision.was_open =>
            /\ LastTrade.id = decision.trade_before.id
            /\ Cardinality({k \in 1..Len(trades) : trades[k].id = LastTrade.id}) = 1
            /\ LastTrade.exit_price = prev_close
            /\ LastTrade.exit_time = last_date
            /\ LastTrade.exit_reason = "TIME_EXIT"
            /\ capital = decision.capital_before + LastTrade.pnl
            /\ equity_curve[Len(equity_curve)] = capital
        /\ ~decision.was_open => capital = decision.capital_before

C5_Witness ==
    /\ pc = "done"
    /\ decision.kind = "close"
    /\ decision.was_open
    /\ LastTrade.pnl # 0
    /\ Len(trades) = 2

\* C6 as claimed: run_backtest never raises on a well-formed series.
C6_RunsToCompletion == pc # "raised"

----------------------------------------------------------------------------
(* No lookahead (SpecPair) *)

EntryChecked(d) == d.kind = "bar" /\ ~d.was_open

SameEntryInputs(d, e) ==
    /\ d.index = e.index
    /\ d.prev_close = e.prev_close
    /\ d.ts = e.ts
    /\ d.capital_before = e.capital_before

Levels(t) == <<t.direction, t.plan, t.entry_price, t.stop_loss, t.target_1, t.target_2>>

\* C4: two runs under one configuration that are both flat at bar i and agree on the
\* close of bar i-1, the timestamp of bar i and the capital take the same entry
\* decision at bar i, with the same direction, plan, entry price, stop and targets,
\* whatever bar i's own open, high, low and close and whatever came before.
C4_NoLookahead ==
    (/\ other # Idle
     /\ EntryChecked(decision)
     /\ EntryChecked(other.decision)
     /\ SameEntryInputs(decision, other.decision)) =>
        /\ decision.opened = other.decision.opened
        /\ decision.opened => Levels(current_trade) = Levels(other.current_trade)

C4_Witness ==
    /\ other # Idle
    /\ EntryChecked(decision)
    /\ EntryChecked(other.decision)
    /\ SameEntryInputs(decision, other.decision)
    /\ decision.opened
    /\ other.decision.opened
    /\ decision.index = 2
    /\ decision.close # other.decision.close
    /\ decision.high # other.decision.high
    /\ decision.low # other.decision.low

----------------------------------------------------------------------------
(* Properties of the Setup Generator (SpecSetup) *)

\* the price of a level of the bracket r: low + level/100 * size
LevelAt(r, level) == r.low + (level * r.size * PriceScale) \div 100

Returned == call.kind = "setup"

\* C7: position <= 17 with BULLISH bias always gives Plan A (EINSTEIN) with entry
\* zone at levels [11, 17], also when position <= 11; position >= 83 with BEARISH
\* bias always gives the mirrored Plan A, entry zone [83, 89], also when position >= 89.
C7_FirstMatchWins ==
    Returned =>
        /\ (PosLE(call.position, 17) /\ call.bias.bias = BULLISH) =>
            /\ call.setup.plan = EINSTEIN
            /\ call.setup.entry_zone = <<LevelAt(call.range, 11), LevelAt(call.range, 17)>>
        /\ (PosGE(call.position, 83) /\ call.bias.bias = BEARISH) =>
            /\ call.setup.plan = EINSTEIN
            /\ call.setup.entry_zone = <<LevelAt(call.range, 83), LevelAt(call.range, 89)>>

C7_Witness ==
    /\ Returned
    /\ PosLE(call.position, 11)
    /\ PosGT(call.position, 0)
    /\ call.bias.bias = BULLISH
    /\ call.setup.plan = EINSTEIN

HasLevels(su, r, e1, e2, t1, t2, inv) ==
    /\ su.entry_zone = <<LevelAt(r, e1), LevelAt(r, e2)>>
    /\ Len(su.targets) = 2
    /\ su.targets[1].level = t1 /\ su.targets[1].price = LevelAt(r, t1)
    /\ su.targets[2].level = t2 /\ su.targets[2].price = LevelAt(r, t2)
    /\ su.invalidation.level = inv /\ su.invalidation.price = LevelAt(r, inv)

\* C8: every setup returned carries the levels of its rule: Plan A [11,17] / [47,59] /
\* 7 for position <= 17 and [83,89] / [53,41] / 93 for position >= 83; Plan C
\* [29,35] / [50,71] / 17 and [65,71] / [50,29] / 83; Plan D for every position in
\* [41,59], [41,47] / [53,59] / 35 up to 50 and [53,59] / [47,41] / 65 above; the
\* entry price is the midpoint of the entry zone and the stop is the invalidation price.
C8_PlanLevels ==
    Returned =>
        /\ (PosGE(call.position, 41) /\ PosLE(call.position, 59)) => call.setup.plan = REBALANCE
        /\ call.setup # None =>
            LET su == call.setup
                r == call.range
                pos == call.position
            IN  /\ \/ /\ su.plan = EINSTEIN /\ su.bias = BULLISH /\ PosLE(pos, 17)
                      /\ HasLevels(su, r, 11, 17, 47, 59, 7)
                   \/ /\ su.plan = EINSTEIN /\ su.bias = BEARISH /\ PosGE(pos, 83)
                      /\ HasLevels(su, r, 83, 89, 53, 41, 93)
                   \/ /\ su.plan = FLOW_CONTINUATION /\ su.bias = BULLISH
                      /\ PosGE(pos, 29) /\ PosLE(pos, 35)
                      /\ HasLevels(su, r, 29, 35, 50, 71, 17)
                   \/ /\ su.plan = FLOW_CONTINUATION /\ su.bias = BEARISH
                      /\ PosGE(pos, 65) /\ PosLE(pos, 71)
                      /\ HasLevels(su, r, 65, 71, 50, 29, 83)
                   \/ /\ su.plan = REBALANCE /\ PosGE(pos, 41) /\ PosLE(pos, 50)
                      /\ HasLevels(su, r, 41, 47, 53, 59, 35)
                   \/ /\ su.plan = REBALANCE /\ PosGT(pos, 50) /\ PosLE(pos, 59)
                      /\ HasLevels(su, r, 53, 59, 47, 41, 65)
                /\ 2 * su.entry_price = su.entry_zone[1] + su.entry_zone[2]
                /\ su.stop_loss = su.invalidation.price

C8_Witness ==
    /\ Returned
    /\ call.setup.plan = REBALANCE
    /\ call.bias.bias = NEUTRAL
    /\ call.setup.stop_loss = LevelAt(call.range, 35)

InGap(pos) ==
    \/ PosGT(pos, 17) /\ PosLT(pos, 29)
    \/ PosGT(pos, 35) /\ PosLT(pos, 41)
    \/ PosGT(pos, 59) /\ PosLT(pos, 65)
    \/ PosGT(pos, 71) /\ PosLT(pos, 83)

\* C9: generate_setup returns the no-setup value exactly when the position lies
\* strictly between 17 and 29, 35 and 41, 59 and 65 or 71 and 83, and a setup (with
\* one of the six plans) for every other position.
C9_NoSetupExactlyInGaps ==
    Returned =>
        /\ (call.setup = None) <=> InGap(call.position)
        /\ call.setup # None => call.setup.plan \in TradePlan

C9_Witness ==
    /\ Returned
    /\ call.setup = None
    /\ call.position.num = 17 * call.position.den + 100

\* the price unit of a bracket: prices below 100 are bracketed in 1/10000ths
Unit(price) == IF price < Pts(100, 0) THEN PriceScale \div ForexScale ELSE PriceScale

----------------------------------------------------------------------------
(* Properties of the Range Partitioner and the Bias Classifier (SpecSetup) *)

\* C11 as claimed: for every bracket, below 100 and from 100 up, get_level_price(50)
\* is the arithmetic midpoint of low and high, and high = low + size in the units of
\* low and high.
C11_MidpointAsClaimed ==
    Returned =>
        /\ 2 * get_level_price(call.range, 50) = call.range.low + call.range.high
        /\ call.range.high = call.range.low + call.range.size * PriceScale

IndexExample ==
    /\ Returned
    /\ call.price = Pts(21500, 0)
    /\ call.range.size = 729

\* C12 as amended: with bracket size 729 and price 21500 the bracket has index 29,
\* low 21141 and high 21870, the position lies between 49 and 50, the layer is
\* REBALANCE, and analyze_bias with no trend reports BULLISH (the mild branch below
\* equilibrium) with reference level 17 and confidence 50.
C12_IndexExample ==
    IndexExample =>
        /\ call.range.range_num = 29
        /\ call.range.low = Pts(21141, 0)
        /\ call.range.high = Pts(21870, 0)
        /\ PosGT(call.position, 49) /\ PosLT(call.position, 50)
        /\ call.position.num \div (call.position.den \div 100) = 4924
        /\ _get_layer_for_position(call.position) = LAYER_REBALANCE
        /\ call.bias.layer = LAYER_REBALANCE
        /\ call.trend_days = 0 =>
            /\ call.bias.bias = BULLISH
            /\ call.bias.gip_level = 17
            /\ call.bias.confidence = 50

C12_Witness == IndexExample /\ call.trend_days = 0 /\ call.bias.bias = BULLISH

\* C12 as claimed: in that example the bias with no trend is NEUTRAL or BEARISH, not
\* BULLISH.
C12_AsClaimed ==
    (IndexExample /\ call.trend_days = 0) =>
        /\ call.range.range_num = 29
        /\ call.range.low = Pts(21141, 0)
        /\ call.range.high = Pts(21870, 0)
        /\ call.bias.layer = LAYER_REBALANCE
        /\ call.bias.bias \in {NEUTRAL, BEARISH}

\* the confidence as the rule states it, from the position, the bias and the trend
Clamp(lo, hi, x) == IF x < lo THEN lo ELSE IF x > hi THEN hi ELSE x

TrendMatches(bias, trend) ==
    (trend > 0 /\ bias = BULLISH) \/ (trend < 0 /\ bias = BEARISH)

StatedConfidence(pos, bias, trend) ==
    LET base == 50 + (IF PosLE(pos, 17) \/ PosGE(pos, 83) THEN 15 ELSE 0)
        layer == IF PosLE(pos, 17) \/ PosGE(pos, 83) THEN 10
                 ELSE IF (PosGE(pos, 29) /\ PosLE(pos, 35))
                         \/ (PosGE(pos, 65) /\ PosLE(pos, 71)) THEN 5
                 ELSE 0
        mag == IF 2 * Abs(trend) < 10 THEN 2 * Abs(trend) ELSE 10
    IN  Clamp(40, 85, base + layer + (IF TrendMatches(bias, trend) THEN mag ELSE 0 - mag))

\* C13: analyze_bias returns confidence = clamp(40, 85, 50 + 15 in the outer bands +
\* layer bonus (10 LIQUIDITY, 5 FLOW, 0 otherwise) +/- min(2*|trend|, 10)), the trend
\* term added when the trend sign matches the bias and subtracted otherwise, also for
\* NEUTRAL bias; the confidence lies in [40, 85].
C13_Confidence ==
    Returned =>
        /\ call.bias.confidence = StatedConfidence(call.position, call.bias.bias, call.trend_days)
        /\ call.bias.confidence >= 40
        /\ call.bias.confidence <= 85

C13_Witness ==
    /\ Returned
    /\ call.bias.bias = NEUTRAL
    /\ call.trend_days = 2
    /\ call.bias.confidence = 46

----------------------------------------------------------------------------
(* Properties of the Monte Carlo analysis (SpecMonteCarlo) *)

Simulated == call.kind = "monte_carlo" /\ call.result # EmptyDict

----------------------------------------------------------------------------
(* Properties of the walk-forward analysis (SpecWalkForward) *)

RECURSIVE FoldsJoined(_)
FoldsJoined(results) ==
    IF results = << >> THEN << >>
    ELSE results[1].in_sample_data \o results[1].out_sample_data \o FoldsJoined(Tail(results))

FoldSize == Len(call.data) \div call.num_folds

WalkForwardShape ==
    /\ Len(call.results) = call.fold
    /\ call.returned => Len(call.results) = call.num_folds
    /\ \A f \in 1..Len(call.results) :
        LET r == call.results[f]
        IN  /\ r.fold = f
            /\ Len(r.in_sample_data) + Len(r.out_sample_data) = FoldSize
            /\ r.in_sample_data \o r.out_sample_data
                 = SubSeq(call.data, (f - 1) * FoldSize + 1, f * FoldSize)
            /\ Len(r.in_sample_data) = (FoldSize * call.in_sample_pct) \div 100
            /\ r.in_sample.trades = run_backtest(config, r.in_sample_data, 0).statistics.total_trades
            /\ r.out_of_sample.trades
                 = run_backtest(config, r.out_sample_data, 0).statistics.total_trades
            /\ r.in_sample.pnl = run_backtest(config, r.in_sample_data, 0).statistics.total_pnl
            /\ r.out_of_sample.pnl = run_backtest(config, r.out_sample_data, 0).statistics.total_pnl

----------------------------------------------------------------------------
(* Properties of the robustness score (SpecRobustness) *)

FracClamp(lo, hi, x) == IF FracLT(x, lo) THEN lo ELSE IF FracLT(hi, x) THEN hi ELSE x

StatedScore(in_stats, out_stats) ==
    IF in_stats.win_rate = Zero THEN Zero
    ELSE FracClamp(Zero, Whole(100),
             FracAdd(FracMul(Whole(50), FracDiv(out_stats.win_rate, in_stats.win_rate)),
                     FracMul(Whole(50),
                             FracDiv(out_stats.profit_factor, in_stats.profit_factor))))

\* C16: for the statistics of any two ledgers the robustness score is
\* 50 * (out win rate / in win rate) + 50 * (out profit factor / in profit factor)
\* clamped to [0, 100], and 0 when the in-sample win rate is 0; it lies in [0, 100] and
\* no divisor is 0 (an in-sample win rate above 0 comes with a profit factor above 0).
C16_RobustnessScore ==
    (call.kind = "robustness") =>
        /\ call.in_stats.win_rate = Zero => call.score = Zero
        /\ call.in_stats.win_rate # Zero =>
            /\ call.in_stats.win_rate.num > 0
            /\ call.in_stats.profit_factor.num > 0
        /\ call.score = StatedScore(call.in_stats, call.out_stats)
        /\ ~FracLT(call.score, Zero)
        /\ ~FracLT(Whole(100), call.score)

\* a score strictly between 0 and 100 that is no whole number
C16_Witness ==
    /\ call.kind = "robustness"
    /\ call.in_stats.losing_trades > 0
    /\ call.out_stats.losing_trades > 0
    /\ FracLT(Zero, call.score)
    /\ FracLT(call.score, Whole(100))
    /\ call.score.den > 1

----------------------------------------------------------------------------
(* Properties of the statistics returned by run_backtest (Spec) *)

RECURSIVE PnlOfFirst(_, _)
PnlOfFirst(ts, k) == IF k = 0 THEN 0 ELSE PnlOfFirst(ts, k - 1) + ts[k].pnl

\* C17 as claimed: the equity curve of the statistics returned by any run, a run
\* without trades included, starts with the initial capital, has one entry more than
\* the ledger has trades, entry k being the initial capital plus the P&L of the first
\* k trades, and ends with initial capital + total_pnl.
C17_EquityCurveAsClaimed ==
    pc = "done" =>
        LET curve == statistics.equity_curve
        IN  /\ Len(curve) = Len(trades) + 1
            /\ curve[1] = config.initial_capital
            /\ \A k \in 0..Len(trades) :
                 curve[k + 1] = config.initial_capital + PnlOfFirst(trades, k)
            /\ curve[Len(curve)] = config.initial_capital + statistics.total_pnl

----------------------------------------------------------------------------
(* Properties of interleaved backtest instances (SpecEngines) *)

Finished(f) == f.pc \in {"done", "raised"}

\* a loop step of a frame calls generate_setup exactly when the frame is flat
CountsSetups(before, after) ==
    /\ after.setup_counter >= before.setup_counter
    /\ (after.decision.kind = "bar" /\ after.decision # before.decision
        /\ after.decision.setup_id # 0) =>
            /\ after.decision.setup_id = after.setup_counter
            /\ after.decision.setup_id > before.setup_counter

AloneResults ==
    (call.kind = "engines") =>
        /\ Finished(Cur) => Cur = run_backtest(call.configs[1], call.data[1], 0)
        /\ Finished(other) => other = run_backtest(call.configs[2], call.data[2], 0)

\* C18: two runs that each own their engine, their steps interleaved in any order,
\* each end with the frame (ledger, statistics, setup counter) of the same run made
\* alone; a step of one run leaves the other run's state as it was; and within an
\* engine the counter only grows, every setup returned carrying the counter's new
\* value, above every id given before.
C18_IndependentEngines ==
    /\ []AloneResults
    /\ [][/\ (Cur' # Cur) => other' = other
          /\ (other' # other) => Cur' = Cur
          /\ CountsSetups(Cur, Cur')
          /\ CountsSetups(other, other')]_vars

\* both runs finished, their steps interleaved, each having been given setups
C18_Witness ==
    /\ call.kind = "engines"
    /\ Finished(Cur) /\ Finished(other)
    /\ Len(trades) >= 1 /\ Len(other.trades) >= 1
    /\ setup_counter >= 2 /\ other.setup_counter >= 2
    /\ setup_counter # other.setup_counter

----------------------------------------------------------------------------
(* Properties of the entry filters (Spec) *)

Rank(label) ==
    CASE label = "WEAK" -> 0
      [] label = "MEDIUM" -> 1
      [] label = "STRONG" -> 2
      [] label = "EXCELLENT" -> 3
      [] label = "PERFECT" -> 4

PhaseOfHour(hour) ==
    IF hour >= 20 \/ hour < 3 THEN "A"
    ELSE IF hour < 9 THEN "M"
    ELSE IF hour < 12 THEN "D1"
    ELSE "D2"

PassedFilters(t) ==
    /\ Rank(t.signal_strength) >= Rank(config.min_signal_strength)
    /\ t.plan \in config.allowed_plans
    /\ t.amd_cycle \in config.allowed_amd_cycles
    /\ t.amd_cycle = PhaseOfHour(Hour(t.entry_time))
    /\ config.require_goldbach_time => t.goldbach_time
    /\ config.allowed_amd_cycles = {"M", "D1"} =>
         (Hour(t.entry_time) >= 3 /\ Hour(t.entry_time) < 12)

\* C19: every position opened, hence every trade of the ledger, comes from a setup
\* with strength at or above min_signal_strength (WEAK < MEDIUM < STRONG < EXCELLENT <
\* PERFECT), plan in allowed_plans, cycle phase in allowed_amd_cycles and, when
\* require_goldbach_time is set, special time confirmed; with phases M and D1 allowed
\* no trade is entered on a bar whose hour is in the ASIAN or D2 phase.
C19_FiltersHold ==
    /\ \A k \in 1..Len(trades) : PassedFilters(trades[k])
    /\ in_trade => PassedFilters(current_trade)
    /\ (decision.kind = "bar" /\ decision.opened) =>
         (in_trade /\ current_trade.entry_time = decision.ts)

\* under the tightened filters: a position opened on the third call of generate_setup,
\* the two bars before it having opened none
C19_Witness ==
    /\ config = StrictConfig
    /\ decision.kind = "bar"
    /\ decision.opened
    /\ decision.setup_id = 3
    /\ trade_id = 1
    /\ current_trade.goldbach_time
    /\ current_trade.plan = EINSTEIN

----------------------------------------------------------------------------
(* Properties of the signal strength (SpecSetup) *)

Indicator(b) == IF b THEN 1 ELSE 0

StatedStrengthScore ==
    2 * Indicator(call.bias.confidence >= 70)
    + Indicator(call.bias.confidence >= 60 /\ call.bias.confidence < 70)
    + 2 * Indicator((Hour(call.time) + Minute(call.time)) \in GOLDBACH_NUMBERS)
    + Indicator(PhaseOfHour(Hour(call.time)) \in {"M", "D1"})
    + Indicator(get_monthly_partition_info(call.time).is_key_day)
    + Indicator(call.bias.layer = LAYER_LIQUIDITY)

StatedLabel(score) ==
    CASE score >= 6 -> "PERFECT"
      [] score = 5 -> "EXCELLENT"
      [] score = 4 -> "STRONG"
      [] score \in {2, 3} -> "MEDIUM"
      [] score \in {0, 1} -> "WEAK"

\* C20: the strength of every setup is the label of the score 2*[confidence >= 70] +
\* [60 <= confidence < 70] + 2*[special time] + [phase M or D1] + [key day] +
\* [layer LIQUIDITY], with >= 6 PERFECT, 5 EXCELLENT, 4 STRONG, 2-3 MEDIUM, 0-1 WEAK;
\* the score is at most 7.
C20_SignalStrength ==
    (Returned /\ call.setup # None) =>
        /\ call.setup.signal_strength = StatedLabel(StatedStrengthScore)
        /\ StatedStrengthScore >= 0
        /\ StatedStrengthScore <= 7

C20_Witness ==
    /\ Returned
    /\ call.setup # None
    /\ StatedStrengthScore = 5
    /\ call.bias.confidence < 70
    /\ call.setup.signal_strength = "EXCELLENT"

----------------------------------------------------------------------------
(* Properties of the time functions (SpecClock) *)

SpecialNumbers == {3, 11, 17, 29, 41, 47, 53, 59, 71, 83, 89, 97}

Distance(a, b) == IF a >= b THEN a - b ELSE b - a

\* C21: analyze_goldbach_time reports sum = hour + minute, is special exactly when
\* the sum is in the special set, and nearest is the element of the set at the
\* smallest distance from the sum, the smaller one on a tie; 14:29 gives sum 43,
\* not special, nearest 41.
C21_GoldbachTime ==
    (call.kind = "goldbach_time") =>
        LET r == call.result
            hour == (call.time % (24 * 60)) \div 60
            minute == call.time % 60
        IN  /\ r.hour = hour /\ r.minute = minute
            /\ r.sum_value = hour + minute
            /\ r.is_goldbach = (hour + minute \in SpecialNumbers)
            /\ r.nearest_goldbach \in SpecialNumbers
            /\ \A x \in SpecialNumbers :
                 \/ Distance(r.nearest_goldbach, r.sum_value) < Distance(x, r.sum_value)
                 \/ /\ Distance(r.nearest_goldbach, r.sum_value) = Distance(x, r.sum_value)
                    /\ r.nearest_goldbach <= x
            /\ (hour = 14 /\ minute = 29) =>
                 r.sum_value = 43 /\ ~r.is_goldbach /\ r.nearest_goldbach = 41

\* a tie: 00:14 is as far from 11 as from 17
C21_Witness ==
    /\ call.kind = "goldbach_time"
    /\ call.result.sum_value = 14
    /\ call.result.nearest_goldbach = 11
    /\ ~call.result.is_goldbach

StartDays == <<8, 7, 6, 5, 4, 3, 2, 1, 9, 8, 7, 6>>

StatedNote(index) ==
    CASE index = 3 -> "POI clue day - look for gap/block/liquidity"
      [] index = 11 -> "First major swing (Goldbach number)"
      [] index = 17 -> "Second swing if day 11 didn't complete"
      [] OTHER -> "None"

\* C22: get_monthly_partition_info reports index = day - start day + 1 when day >=
\* the month's start day and 0 otherwise, and flags a key day exactly when the index
\* is 3, 11 or 17, each with its note; month 3, day 8 gives index 3, a key day with
\* the POI clue day note; index 0 is never a key day.
C22_PartitionInfo ==
    (call.kind = "partition") =>
        LET r == call.result
            start == StartDays[r.month]
        IN  /\ r.month = Month(call.time) /\ r.day = Day(call.time)
            /\ r.partition_start = start
            /\ r.partition_day = (IF r.day >= start THEN r.day - start + 1 ELSE 0)
            /\ r.is_key_day = (r.partition_day \in {3, 11, 17})
            /\ r.key_day_info = StatedNote(r.partition_day)
            /\ (r.month = 3 /\ r.day = 8) =>
                 /\ r.partition_day = 3 /\ r.is_key_day
                 /\ r.key_day_info = "POI clue day - look for gap/block/liquidity"
            /\ (r.partition_day = 0) => ~r.is_key_day

C22_Witness ==
    /\ call.kind = "partition"
    /\ call.result.month = 3 /\ call.result.day = 8
    /\ call.result.partition_day = 3
    /\ call.result.is_key_day

IsSpecial(t) == ((t % (24 * 60)) \div 60) + (t % 60) \in SpecialNumbers

\* C30: get_next_goldbach_times returns exactly N timestamps, strictly increasing,
\* all strictly later than the start time, each with hour + minute special, and no
\* special minute between the start time and the last one returned is skipped.
C30_NextGoldbachTimes ==
    (call.kind = "next_times") =>
        LET r == call.result
        IN  /\ Len(r) = call.count
            /\ \A k \in 1..Len(r) :
                 /\ r[k].time > call.time
                 /\ IsSpecial(r[k].time)
                 /\ k > 1 => r[k].time > r[k - 1].time
            /\ Len(r) > 0 =>
                 \A t \in (call.time + 1)..r[Len(r)].time :
                    IsSpecial(t) => \E k \in 1..Len(r) : r[k].time = t

\* the start minute is special itself and the three times asked for lie past it
C30_Witness ==
    /\ call.kind = "next_times"
    /\ IsSpecial(call.time)
    /\ call.count = 3
    /\ Len(call.result) = 3
    /\ call.result[3].time > call.result[1].time + 1

----------------------------------------------------------------------------
(* Properties of the positions and the ledger (Spec) *)

PositionOpen == in_trade /\ current_trade # NoTrade

\* C23: every position opened has its stop on the losing side and its targets on
\* the winning side of the entry price: stop < entry < target 1 < target 2 for a
\* LONG, stop > entry > target 1 > target 2 for a SHORT, also when the previous
\* close sits at exactly 50 of its bracket.
C23_StopAndTargetsAsClaimed ==
    PositionOpen =>
        /\ (current_trade.direction = "LONG") =>
            /\ current_trade.stop_loss < current_trade.entry_price
            /\ current_trade.entry_price < current_trade.target_1
            /\ current_trade.target_1 < current_trade.target_2
        /\ (current_trade.direction = "SHORT") =>
            /\ current_trade.stop_loss > current_trade.entry_price
            /\ current_trade.entry_price > current_trade.target_1
            /\ current_trade.target_1 > current_trade.target_2

\* the index of the last bar read
LastBar == i - 1

\* C24: every ledger trade's bars_held is the index of its exit bar minus the index
\* of its entry bar, also for a position force-closed at the end of the series, and
\* 1 <= bars_held <= max_bars_in_trade.
C24_BarsHeldAsClaimed ==
    /\ (decision.kind = "bar" /\ decision.exit # NoExit /\ pc # "raised") =>
        LastTrade.bars_held = decision.index - decision.trade_before.entry_bar
    /\ (decision.kind = "close" /\ decision.was_open /\ pc # "raised") =>
        LastTrade.bars_held = LastBar - decision.trade_before.entry_bar
    /\ \A k \in 1..Len(trades) :
        /\ 1 <= trades[k].bars_held
        /\ trades[k].bars_held <= config.max_bars_in_trade

\* the part of C24 the runner keeps: the bounds, and the bar difference for exits
\* taken inside the loop
C24_BarsHeldInLoop ==
    /\ (decision.kind = "bar" /\ decision.exit # NoExit /\ pc # "raised") =>
        LastTrade.bars_held = decision.index - decision.trade_before.entry_bar
    /\ \A k \in 1..Len(trades) :
        /\ 1 <= trades[k].bars_held
        /\ trades[k].bars_held <= config.max_bars_in_trade

\* C25: no position is opened on the bar on which the previous one was closed, and
\* none on bar 0: ledger ids are 1, 2, ..., n in order, every entry bar is >= 1, and
\* each trade is entered strictly after the exit bar of the trade before it (bars
\* carry strictly increasing timestamps), so holding intervals never overlap.
C25_NoEntryOnExitBar ==
    /\ \A k \in 1..Len(trades) :
        /\ trades[k].id = k
        /\ trades[k].entry_time <= trades[k].exit_time
        /\ k > 1 => trades[k].entry_time > trades[k - 1].exit_time
    /\ (pc = "loop" /\ PositionOpen) =>
        /\ current_trade.entry_bar >= 1
        /\ current_trade.id = Len(trades) + 1
        /\ Len(trades) > 0 => current_trade.entry_time > LastTrade.exit_time
    /\ (decision.kind = "bar" /\ decision.exit # NoExit) =>
        ~decision.opened /\ (pc # "raised" => ~in_trade)
    /\ (decision.kind = "bar" /\ decision.opened) =>
        /\ decision.index >= 1
        /\ current_trade.entry_bar = decision.index
        /\ current_trade.entry_time = decision.ts

\* a position closed on bar 2 by an exit rule, the next one opened on bar 3
C25_Witness ==
    /\ decision.kind = "bar"
    /\ decision.opened
    /\ decision.index = 3
    /\ Len(trades) = 1
    /\ trades[1].bars_held = 1
    /\ trades[1].exit_reason # "TIME_EXIT"
    /\ current_trade.id = 2

SignedMove(t) ==
    IF t.direction = "LONG" THEN t.exit_price - t.entry_price
    ELSE t.entry_price - t.exit_price

StatedPnl(t) ==
    MulDiv(SignedMove(t), t.position_size, PriceScale)
    - 2 * config.commission - 2 * config.slippage

\* C26: each ledger trade's position size is position_size_pct percent of the capital
\* at its entry (initial capital plus the P&L of all earlier ledger trades); its P&L
\* is the direction-signed price difference times the position size, minus twice the
\* commission and twice the slippage; its result is WIN, LOSS or BREAKEVEN as that
\* net P&L is positive, negative or zero, whatever the exit reason.
C26_SizePnlResult ==
    \A k \in 1..Len(trades) :
        /\ trades[k].position_size =
             MulDiv(config.initial_capital + PnlOfFirst(trades, k - 1),
                    config.position_size_pct, 100)
        /\ trades[k].pnl = StatedPnl(trades[k])
        /\ trades[k].result = (IF trades[k].pnl > 0 THEN "WIN"
                               ELSE IF trades[k].pnl < 0 THEN "LOSS" ELSE "BREAKEVEN")

\* a second trade sized on a capital changed by the first
C26_Witness ==
    /\ Len(trades) = 2
    /\ trades[1].pnl # 0
    /\ trades[2].position_size # trades[1].position_size
    /\ trades[1].result # trades[2].result

Adverse(t, high, low) ==
    IF t.direction = "LONG" THEN low - t.entry_price ELSE t.entry_price - high

Favourable(t, high, low) ==
    IF t.direction = "LONG" THEN high - t.entry_price ELSE t.entry_price - low

Least(a, b) == IF a <= b THEN a ELSE b
Greatest(a, b) == IF a >= b THEN a ELSE b

\* C27: MAE is the minimum of 0 and the adverse excursions, MFE the maximum of 0 and
\* the favourable ones, over exactly the bars after the entry bar on which the
\* position stayed open: both are 0 when the position is opened, a bar on which it
\* stays open folds its excursions in, a bar on which an exit fires (and the close at
\* the end of the series) leaves them as they were; so MAE <= 0 <= MFE, and a trade
\* that exits on the first bar after its entry has MAE = MFE = 0.
C27_Excursions ==
    /\ \A k \in 1..Len(trades) : trades[k].mae <= 0 /\ 0 <= trades[k].mfe
    /\ (decision.kind = "bar" /\ decision.opened) =>
        current_trade.mae = 0 /\ current_trade.mfe = 0
    /\ (decision.kind = "bar" /\ decision.was_open /\ decision.exit = NoExit) =>
        /\ current_trade.mae =
             Least(decision.trade_before.mae,
                   Adverse(decision.trade_before, decision.high, decision.low))
        /\ current_trade.mfe =
             Greatest(decision.trade_before.mfe,
                      Favourable(decision.trade_before, decision.high, decision.low))
    /\ (decision.kind = "bar" /\ decision.exit # NoExit /\ pc # "raised") =>
        /\ LastTrade.mae = decision.trade_before.mae
        /\ LastTrade.mfe = decision.trade_before.mfe
        /\ Held(decision) = 1 => (LastTrade.mae = 0 /\ LastTrade.mfe = 0)
    /\ (decision.kind = "close" /\ decision.was_open /\ pc # "raised") =>
        /\ LastTrade.mae = decision.trade_before.mae
        /\ LastTrade.mfe = decision.trade_before.mfe

\* the second bar a position stays open on: the adverse excursion of the bar before
\* is kept, the favourable one of this bar taken
C27_Witness ==
    /\ decision.kind = "bar"
    /\ decision.was_open
    /\ decision.exit = NoExit
    /\ Held(decision) = 2
    /\ decision.trade_before.mae < 0
    /\ Adverse(decision.trade_before, decision.high, decision.low) > decision.trade_before.mae
    /\ current_trade.mae = decision.trade_before.mae
    /\ current_trade.mfe > decision.trade_before.mfe

----------------------------------------------------------------------------
(* Reachability of the plan rules (SpecSetup) *)

SetupArgs == [price : SetupPrices, po3_size : SetupSizes, trend_days : TrendDays]

PlanFor(a) ==
    generate_setup(setup_counter, a.price, a.po3_size, DEFAULT_PO3, a.trend_days,
                   Stamp(3, 8, 9, 20))

\* C28: every rule of the plan table can fire: some price makes generate_setup return
\* Plan B (LIQUIDITY), entry zone [3, 11], targets [29, 50], invalidation at the
\* bracket low, or its mirror, just as some prices yield Plans A, C and D.
C28_EveryRuleCanFire ==
    /\ \E a \in SetupArgs : PlanFor(a).plan = LIQUIDITY
    /\ \E a \in SetupArgs : PlanFor(a).plan = EINSTEIN
    /\ \E a \in SetupArgs : PlanFor(a).plan = FLOW_CONTINUATION
    /\ \E a \in SetupArgs : PlanFor(a).plan = REBALANCE

\* what the rule order leaves of C28: Plans A, C and D are returned, Plan B never is,
\* a price at 11 or below with BULLISH bias being taken by Plan A
C28_PlanBShadowed ==
    /\ \E a \in SetupArgs : PlanFor(a).plan = EINSTEIN
    /\ \E a \in SetupArgs : PlanFor(a).plan = FLOW_CONTINUATION
    /\ \E a \in SetupArgs : PlanFor(a).plan = REBALANCE
    /\ Returned =>
        /\ call.setup.plan # LIQUIDITY
        /\ (PosLE(call.position, 11) /\ call.bias.bias = BULLISH) =>
             call.setup.plan = EINSTEIN
        /\ (PosGE(call.position, 89) /\ call.bias.bias = BEARISH) =>
             call.setup.plan = EINSTEIN

----------------------------------------------------------------------------
(* Properties of the drawdown statistics (SpecStatistics) *)

RunningPeak(curve, k) == SeqMax(SubSeq(curve, 1, k))

\* the indices (from 0) at which the curve makes a new running peak, the seed included
PeakIndices(curve) ==
    {0} \cup {k \in 1..(Len(curve) - 1) : curve[k + 1] > RunningPeak(curve, k)}

StatedDuration(curve) ==
    LET peaks == PeakIndices(curve)
        gaps == {q - p : p, q \in peaks} \cap
                {g \in 1..Len(curve) :
                    \E p \in peaks : p + g \in peaks /\ \A m \in peaks : ~(p < m /\ m < p + g)}
    IN  IF gaps = {} THEN 0 ELSE CHOOSE g \in gaps : \A h \in gaps : h <= g

StatedDrawdown(curve) ==
    LET dds == {RunningPeak(curve, k) - curve[k] : k \in 1..Len(curve)}
    IN  CHOOSE d \in dds : \A e \in dds : e <= d

\* C29: max_drawdown is the maximum over the curve of (running peak so far - current
\* equity), and max_drawdown_duration the largest number of curve steps between two
\* consecutive running peaks, the seed at index 0 counting as the first peak; the
\* duration is 0 when the curve never rises above its seed.
C29_DrawdownAsClaimed ==
    (call.kind = "statistics" /\ trades # << >>) =>
        /\ statistics.max_drawdown = StatedDrawdown(equity_curve)
        /\ statistics.max_drawdown_duration = StatedDuration(equity_curve)

\* what the loop computes: the gap from the seed to the first higher value is left out
C29_DrawdownSkipsSeed ==
    (call.kind = "statistics" /\ trades # << >>) =>
        /\ statistics.max_drawdown = StatedDrawdown(equity_curve)
        /\ statistics.max_drawdown_duration =
             (LET later == PeakIndices(equity_curve) \ {0}
                  gaps == {q - p : p, q \in later} \cap
                          {g \in 1..Len(equity_curve) :
                              \E p \in later :
                                  /\ p + g \in later
                                  /\ \A m \in later : ~(p < m /\ m < p + g)}
              IN  IF gaps = {} THEN 0 ELSE CHOOSE g \in gaps : \A h \in gaps : h <= g)

====
